---- MODULE Spec2Model ----
(***************************************************************************)
(* A model of the arena manager of src/arena.c: the registry of arenas,    *)
(* the per-arena atomic bitmaps, and the allocation, free, purge and       *)
(* registration paths, interleaved at the granularity of their accesses to *)
(* shared memory.                                                          *)
(*                                                                         *)
(* Sizes are counted in units of MI_SEGMENT_ALIGN (8 MiB), so a block is 4 *)
(* units and the smallest arena object 2 units. A bitmap is the set of its *)
(* set bit positions, a position being field * MI_BITMAP_FIELD_BITS + bit. *)
(* The bitmap primitives (bitmap.c is not part of the sources) follow the  *)
(* contract of section 4.2 of the specification.                           *)
(***************************************************************************)
EXTENDS Integers, Sequences, FiniteSets, TLC

\* ------------------------------------------------------------------ constants
MI_SEGMENT_ALIGN == 1
MI_ARENA_BLOCK_SIZE == 4 * MI_SEGMENT_ALIGN
MI_ARENA_MIN_OBJ_SIZE == MI_ARENA_BLOCK_SIZE \div 2
\* The registry is scaled from 64 slots to 4 (3*(4/4) = 3 is the reserve limit).
MI_MAX_ARENAS == 4
\* A bitmap field is scaled from 64 bits to 4.
MI_BITMAP_FIELD_BITS == 4
MI_MEMID_OS == 0
ENOMEM == 12
EINVAL == 22
EAGAIN == 11

\* ------------------------------------------------------------------ bounds
\* Number of blocks of the arena of the single-arena specifications.
ArenaBlocks == 2
\* The clock stops advancing here.
MaxTime == 6
\* purge_expire is not pushed beyond this by repeated frees.
MaxExpire == 33
\* Operations begun in a behaviour of the specifications that bound them.
MaxCalls == 4

Threads == {"t1", "t2"}
\* The thread that runs the purge passes of the single-arena specification.
Purger == "t2"
\* The thread that frees in the specification of arbitrary frees.
Freer == "t2"
\* The thread that registers arenas explicitly.
Registrar == "t1"
\* The clock advances in steps of this many milliseconds.
TickMs == 5

\* ------------------------------------------------------------------ helpers
_mi_divide_up(size, divider) == (size + divider - 1) \div divider

_mi_align_up(size, alignment) == _mi_divide_up(size, alignment) * alignment

BitRange(index, count) == index .. (index + count - 1)

\* ------------------------------------------------------------------ bitmap.h
mi_bitmap_index_create(idx, bitidx) == idx * MI_BITMAP_FIELD_BITS + bitidx

mi_bitmap_index_field(bitmap_idx) == bitmap_idx \div MI_BITMAP_FIELD_BITS

mi_bitmap_index_bit(bitmap_idx) == bitmap_idx

\* The value of one field of a bitmap: the bits of the field that are set.
FieldOf(bitmap, idx) ==
  { b \in 0 .. (MI_BITMAP_FIELD_BITS - 1) : mi_bitmap_index_create(idx, b) \in bitmap }

\* Claims the first run of count zero bits, searching from field start_idx and
\* wrapping around; a run may span adjacent fields but does not wrap.
_mi_bitmap_try_find_from_claim_across(bitmap, field_count, start_idx, count) ==
  LET total == field_count * MI_BITMAP_FIELD_BITS
      first == (start_idx % field_count) * MI_BITMAP_FIELD_BITS
      order == [k \in 0 .. (total - 1) |-> (first + k) % total]
      fits(p) == p + count <= total /\ BitRange(p, count) \cap bitmap = {}
      hits == { k \in 0 .. (total - 1) : fits(order[k]) }
  IN IF hits = {}
     THEN [ok |-> FALSE, bitmap_idx |-> 0, bitmap |-> bitmap]
     ELSE LET k == CHOOSE x \in hits : \A y \in hits : x <= y
          IN [ok |-> TRUE, bitmap_idx |-> order[k],
              bitmap |-> bitmap \cup BitRange(order[k], count)]

\* Sets count bits at bitmap_idx if all of them are zero.
_mi_bitmap_try_claim(bitmap, count, bitmap_idx) ==
  IF BitRange(bitmap_idx, count) \cap bitmap = {}
  THEN [ok |-> TRUE, bitmap |-> bitmap \cup BitRange(bitmap_idx, count)]
  ELSE [ok |-> FALSE, bitmap |-> bitmap]

\* Sets count bits; ret and any_zero report that at least one bit was zero.
_mi_bitmap_claim_across(bitmap, count, bitmap_idx) ==
  [bitmap |-> bitmap \cup BitRange(bitmap_idx, count),
   ret |-> BitRange(bitmap_idx, count) \ bitmap # {},
   any_zero |-> BitRange(bitmap_idx, count) \ bitmap # {}]

_mi_bitmap_claim(bitmap, count, bitmap_idx) ==
  _mi_bitmap_claim_across(bitmap, count, bitmap_idx)

\* Clears count bits; all_one reports that every bit was one.
_mi_bitmap_unclaim_across(bitmap, count, bitmap_idx) ==
  [bitmap |-> bitmap \ BitRange(bitmap_idx, count),
   all_one |-> BitRange(bitmap_idx, count) \subseteq bitmap]

_mi_bitmap_is_claimed_across(bitmap, count, bitmap_idx) ==
  BitRange(bitmap_idx, count) \subseteq bitmap

\* ------------------------------------------------------------------ arena ids
_mi_arena_id_none == 0

mi_arena_id_index(id) == IF id <= 0 THEN MI_MAX_ARENAS ELSE id - 1

mi_arena_id_create(arena_index) == arena_index + 1

\* A suitability test that lets any request into an arena that is not exclusive.
mi_arena_id_is_suitable_any(arena_id, arena_is_exclusive, req_arena_id) ==
  \/ ~arena_is_exclusive
  \/ arena_id = req_arena_id

mi_arena_id_is_suitable(arena_id, arena_is_exclusive, req_arena_id) ==
  \/ (~arena_is_exclusive /\ req_arena_id = _mi_arena_id_none)
  \/ arena_id = req_arena_id

\* ------------------------------------------------------------------ memid
mi_arena_memid_create(id, exclusive, bitmap_index) ==
  (bitmap_index * 256) + (id % 128) + (IF exclusive THEN 128 ELSE 0)

mi_arena_memid_indices(arena_memid) ==
  [bitmap_index |-> arena_memid \div 256,
   arena_index |-> mi_arena_id_index(arena_memid % 128),
   exclusive |-> (arena_memid \div 128) % 2 = 1]

mi_block_count_of_size(size) == _mi_divide_up(size, MI_ARENA_BLOCK_SIZE)

\* ------------------------------------------------------------------ state
VARIABLES
  mi_arenas,       \* the registry: slot -> arena descriptor, or NullArena
  mi_arena_count,  \* number of reserved registry slots
  purge_guard,     \* the guard of mi_arenas_try_purge
  clock,           \* _mi_clock_now()
  opt,             \* the options consulted by the arena code
  os_brk,          \* number of regions the OS has handed out
  th,              \* per thread: the position in its operation and its locals
  ret,             \* what the last step returned, if an operation returned in it
  live,            \* arena runs returned by an allocation whose free has not begun
  os_calls,        \* the OS commit/decommit/reset calls issued by the last step
  ub,              \* undefined behaviour executed by the last step
  calls            \* operations begun, where the specification bounds them

vars == <<mi_arenas, mi_arena_count, purge_guard, clock, opt, os_brk, th, ret,
          live, os_calls, ub, calls>>

\* rec with the fields of upd overwritten; upd has only fields of rec.
Set(rec, upd) == upd @@ rec

NullArena == [null |-> TRUE]

\* Locals of an idle thread.
T0 ==
  [pc |-> "idle", cont |-> "idle",
   size |-> 0, commit |-> FALSE, large |-> FALSE, req_arena_id |-> 0,
   numa_node |-> 0, max_arena |-> 0, i |-> 0, pass |-> 0,
   arena_index |-> 0, bitmap_index |-> 0, blocks |-> 0,
   memid |-> 0, p |-> 0, is_pinned |-> FALSE, arena_id |-> 0,
   expire |-> 0, force |-> FALSE, max_purge_count |-> 0, now |-> 0,
   purge |-> {}, fi |-> 0, bitidx |-> 0, bitlen |-> 0,
   any_purged |-> FALSE, full_purge |-> TRUE,
   reserved |-> FALSE, touched |-> FALSE, was_committed |-> FALSE,
   arena |-> NullArena]

\* Nothing returned yet.
R0 ==
  [op |-> "none", t |-> "none", p |-> 0, memid |-> 0, commit |-> FALSE, large |-> FALSE,
   is_zero |-> FALSE, is_pinned |-> FALSE, errno |-> 0,
   arena_index |-> -1, bitmap_index |-> 0, blocks |-> 0, req_arena_id |-> 0,
   req_commit |-> FALSE, was_committed |-> FALSE, os_commit |-> FALSE,
   commit_zero |-> FALSE, reserved |-> FALSE, touched |-> FALSE, ok |-> FALSE, arena_id |-> 0,
   all_inuse |-> FALSE]

\* The address the OS gives its n-th region.
OsRegion(n) == 1000 * (n + 1)

\* The address of a direct OS allocation.
OsPointer == OsRegion(0) \div 2

\* ------------------------------------------------------------------ arena descriptor
\* A descriptor whose leftover bits of the last field are not claimed.
mi_arena_new_no_post(start, size, is_committed, is_large, is_zero, numa_node, exclusive) ==
  LET committed == is_large \/ is_committed
      bcount == size \div MI_ARENA_BLOCK_SIZE
  IN [null |-> FALSE, id |-> _mi_arena_id_none, exclusive |-> exclusive,
      start |-> start, block_count |-> bcount,
      field_count |-> _mi_divide_up(bcount, MI_BITMAP_FIELD_BITS),
      numa_node |-> numa_node, is_large |-> is_large, is_zero_init |-> is_zero,
      allow_decommit |-> (~is_large /\ ~committed), purge_expire |-> 0,
      search_idx |-> 0, blocks_dirty |-> {}, blocks_committed |-> {},
      blocks_purge |-> {}, blocks_inuse |-> {}]

\* The descriptor mi_manage_os_memory_ex builds before it registers it.
mi_arena_new(start, size, is_committed, is_large, is_zero, numa_node, exclusive) ==
  LET committed == is_large \/ is_committed
      allow_decommit == ~is_large /\ ~committed
      bcount == size \div MI_ARENA_BLOCK_SIZE
      fields == _mi_divide_up(bcount, MI_BITMAP_FIELD_BITS)
      post == (fields * MI_BITMAP_FIELD_BITS) - bcount
      postidx == mi_bitmap_index_create(fields - 1, MI_BITMAP_FIELD_BITS - post)
  IN [null |-> FALSE,
      id |-> _mi_arena_id_none,
      exclusive |-> exclusive,
      start |-> start,
      block_count |-> bcount,
      field_count |-> fields,
      numa_node |-> numa_node,
      is_large |-> is_large,
      is_zero_init |-> is_zero,
      allow_decommit |-> allow_decommit,
      purge_expire |-> 0,
      search_idx |-> 0,
      blocks_dirty |-> {},
      blocks_committed |-> {},
      blocks_purge |-> {},
      blocks_inuse |-> IF post > 0
                       THEN _mi_bitmap_claim({}, post, postidx).bitmap
                       ELSE {}]

\* blocks_committed and blocks_purge are NULL unless the arena allows decommit.
HasCommitted(arena) == arena.allow_decommit

HasPurge(arena) == arena.allow_decommit

\* A read of mi_arenas[i]; a slot beyond the array is no descriptor.
LoadSlot(i) == IF i \in DOMAIN mi_arenas THEN mi_arenas[i] ELSE NullArena

\* The blocks of the runs in live that lie in arena slot i.
LiveBlocks(i) ==
  UNION { BitRange(a.bitmap_index, a.blocks) : a \in { x \in live : x.arena_index = i } }

\* The thread goes on within its operation.
Goto(t, upd) ==
  /\ th' = [th EXCEPT ![t] = Set(@, upd)]
  /\ ret' = R0

\* The operation of the thread returns.
Return(t, r) ==
  /\ th' = [th EXCEPT ![t] = T0]
  /\ ret' = Set(Set(R0, r), [t |-> t])

\* ------------------------------------------------------------------ allocation
\* A claim that takes the run at the search index whether or not it is free.
mi_arena_alloc_unchecked(arena, blocks) ==
  LET idx == arena.search_idx
      bitmap_idx == mi_bitmap_index_create(idx, 0)
  IN [ok |-> TRUE, bitmap_idx |-> bitmap_idx,
      arena |-> Set(arena, [blocks_inuse |->
                  arena.blocks_inuse \cup BitRange(bitmap_idx, blocks)])]

\* mi_arena_alloc: claim a run of blocks in the in-use bitmap of the arena.
mi_arena_alloc(arena, blocks) ==
  LET idx == arena.search_idx
      r == _mi_bitmap_try_find_from_claim_across(
             arena.blocks_inuse, arena.field_count, idx, blocks)
  IN IF r.ok
     THEN [ok |-> TRUE, bitmap_idx |-> r.bitmap_idx,
           arena |-> Set(arena, [blocks_inuse |-> r.bitmap, search_idx |-> idx])]
     ELSE [ok |-> FALSE, bitmap_idx |-> 0, arena |-> arena]

\* mi_arena_alloc_from up to the claim: the suitability test and the claim. On
\* success the thread goes on to the purge, dirty and commit bitmaps of its run;
\* otherwise it continues as onfail says.
AllocFromClaim(t, i, onfail) ==
  LET arena == mi_arenas[i]
      r == mi_arena_alloc(arena, th[t].blocks)
  IN IF mi_arena_id_is_suitable(arena.id, arena.exclusive, th[t].req_arena_id) /\ r.ok
     THEN /\ mi_arenas' = [mi_arenas EXCEPT ![i] = r.arena]
          /\ Goto(t, [pc |-> IF HasPurge(arena) THEN "alloc_unclaim_purge"
                             ELSE "alloc_commit",
                      arena_index |-> i,
                      bitmap_index |-> r.bitmap_idx,
                      p |-> arena.start
                            + (mi_bitmap_index_bit(r.bitmap_idx) * MI_ARENA_BLOCK_SIZE),
                      memid |-> mi_arena_memid_create(arena.id, arena.exclusive,
                                                      r.bitmap_idx),
                      large |-> arena.is_large,
                      is_pinned |-> (arena.is_large \/ ~arena.allow_decommit),
                      was_committed |-> _mi_bitmap_is_claimed_across(
                          arena.blocks_committed, th[t].blocks, r.bitmap_idx),
                      touched |-> TRUE])
     ELSE /\ UNCHANGED mi_arenas
          /\ Goto(t, onfail)

\* mi_arena_allocate returns NULL: on to the eager reservation; the locals of
\* the walk are dead.
NoArena ==
  [pc |-> "alloc_reserve", max_arena |-> 0, i |-> 0, pass |-> 0, arena_index |-> 0]

\* mi_arena_alloc_in or the reservation failed: on to the OS.
NoReserve ==
  [pc |-> "alloc_os", max_arena |-> 0, i |-> 0, pass |-> 0, arena_index |-> 0,
   arena_id |-> 0, cont |-> "idle", arena |-> NullArena]

\* A walk that tries every arena in both passes.
WalkEligible_any(arena, pass, numa_node, large) == TRUE

\* Whether the walk of mi_arena_allocate tries this arena in this pass.
WalkEligible(arena, pass, numa_node, large) ==
  /\ IF pass = 1
     THEN arena.numa_node < 0 \/ arena.numa_node = numa_node
     ELSE arena.numa_node >= 0 /\ arena.numa_node # numa_node
  /\ (large \/ ~arena.is_large)

\* Where the walk goes after slot i of a pass did not serve the request.
WalkNext(pass, i, max_arena) ==
  IF i + 1 < max_arena THEN [pc |-> "alloc_walk", pass |-> pass, i |-> i + 1]
  ELSE IF pass = 1 THEN [pc |-> "alloc_walk", pass |-> 2, i |-> 0]
  ELSE NoArena

\* Where the walk goes when it meets an empty slot ("end reached").
WalkBreak(pass) ==
  IF pass = 1 THEN [pc |-> "alloc_walk", pass |-> 2, i |-> 0]
  ELSE NoArena

\* _mi_arena_alloc_aligned, entry: the outputs are reset, and a request that is
\* large enough and not over-aligned enters mi_arena_allocate, which loads the
\* arena count and picks the specific arena or the walk.
AllocBegin(t, size, alignment, align_offset, commit, large, req_arena_id, numa_node) ==
  /\ th[t].pc = "idle"
  /\ LET base == Set(T0, [size |-> size, commit |-> commit, large |-> large,
                          req_arena_id |-> req_arena_id, numa_node |-> numa_node,
                          blocks |-> mi_block_count_of_size(size),
                          memid |-> MI_MEMID_OS])
         max_arena == mi_arena_count
         arena_index == mi_arena_id_index(req_arena_id)
     IN th' = [th EXCEPT ![t] =
          IF ~(size >= MI_ARENA_MIN_OBJ_SIZE /\ alignment <= MI_SEGMENT_ALIGN
               /\ align_offset = 0)
          THEN Set(base, [pc |-> "alloc_os"])
          ELSE IF max_arena = 0
          THEN Set(base, [pc |-> "alloc_reserve"])
          ELSE IF arena_index < MI_MAX_ARENAS
          THEN Set(base, [pc |-> "alloc_specific", max_arena |-> max_arena,
                          arena_index |-> arena_index])
          ELSE Set(base, [pc |-> "alloc_walk", max_arena |-> max_arena,
                          pass |-> 1, i |-> 0])]
  /\ ret' = R0
  /\ os_calls' = <<>>
  /\ UNCHANGED <<mi_arenas, mi_arena_count, purge_guard, clock, opt, os_brk, live>> /\ ub' = {}

\* mi_arena_allocate, a specific arena was requested: try only that one.
AllocSpecific(t) ==
  /\ th[t].pc = "alloc_specific"
  /\ UNCHANGED calls
  /\ LET arena == mi_arenas[th[t].arena_index]
     IN IF /\ ~arena.null
           /\ (arena.numa_node < 0 \/ arena.numa_node = th[t].numa_node)
           /\ (th[t].large \/ ~arena.is_large)
        THEN AllocFromClaim(t, th[t].arena_index, NoArena)
        ELSE /\ Goto(t, NoArena)
             /\ UNCHANGED mi_arenas
  /\ os_calls' = <<>>
  /\ UNCHANGED <<mi_arena_count, purge_guard, clock, opt, os_brk, live>> /\ ub' = {}

\* mi_arena_allocate, one iteration of the numa-local pass (1) or of the pass
\* over the arenas of other numa nodes (2).
AllocWalk(t) ==
  /\ th[t].pc = "alloc_walk"
  /\ UNCHANGED calls
  /\ LET i == th[t].i
         arena == LoadSlot(i)
     IN /\ IF arena.null
           THEN /\ Goto(t, WalkBreak(th[t].pass))
                /\ UNCHANGED mi_arenas
           ELSE IF WalkEligible(arena, th[t].pass, th[t].numa_node, th[t].large)
           THEN AllocFromClaim(t, i, WalkNext(th[t].pass, i, th[t].max_arena))
           ELSE /\ Goto(t, WalkNext(th[t].pass, i, th[t].max_arena))
                /\ UNCHANGED mi_arenas
        /\ ub' = IF i \in DOMAIN mi_arenas THEN {} ELSE {"slot out of bounds"}
  /\ os_calls' = <<>>
  /\ UNCHANGED <<mi_arena_count, purge_guard, clock, opt, os_brk, live>>

\* An allocation that leaves the purge bits of its run as they are.
AllocUnclaimPurge_skip(t) ==
  /\ th[t].pc = "alloc_unclaim_purge"
  /\ UNCHANGED calls
  /\ Goto(t, [pc |-> "alloc_commit"])
  /\ os_calls' = <<>>
  /\ UNCHANGED <<mi_arenas, mi_arena_count, purge_guard, clock, opt, os_brk, live>>
  /\ ub' = {}

\* mi_arena_alloc_from: none of the claimed blocks stays scheduled for a purge.
AllocUnclaimPurge(t) ==
  /\ th[t].pc = "alloc_unclaim_purge"
  /\ UNCHANGED calls
  /\ mi_arenas' = [mi_arenas EXCEPT ![th[t].arena_index] =
       Set(@, [blocks_purge |-> _mi_bitmap_unclaim_across(
                 @.blocks_purge, th[t].blocks, th[t].bitmap_index).bitmap])]
  /\ Goto(t, [pc |-> "alloc_commit"])
  /\ os_calls' = <<>>
  /\ UNCHANGED <<mi_arena_count, purge_guard, clock, opt, os_brk, live>> /\ ub' = {}

\* What an allocation that an arena served returns.
ArenaResult(t, commit, is_zero, os_commit) ==
  [op |-> "alloc", p |-> th[t].p, memid |-> th[t].memid, commit |-> commit,
   large |-> th[t].large, is_zero |-> is_zero, is_pinned |-> th[t].is_pinned,
   arena_index |-> th[t].arena_index, bitmap_index |-> th[t].bitmap_index,
   blocks |-> th[t].blocks, req_arena_id |-> th[t].req_arena_id,
   req_commit |-> th[t].commit, was_committed |-> th[t].was_committed,
   os_commit |-> os_commit, commit_zero |-> FALSE,
   reserved |-> th[t].reserved, touched |-> TRUE]

\* mi_arena_alloc_from, the rest: the dirty bits of the run are set, the commit
\* state is settled (committing through the OS when a block was uncommitted) and
\* the run is returned. commit_zero is what _mi_os_commit reports; the result
\* records it when the OS was called.
AllocCommit(t, commit_zero) ==
  /\ th[t].pc = "alloc_commit"
  /\ UNCHANGED calls
  /\ LET ai == th[t].arena_index
         arena == mi_arenas[ai]
         n == th[t].blocks
         bi == th[t].bitmap_index
         dirty == _mi_bitmap_claim_across(arena.blocks_dirty, n, bi)
         com == _mi_bitmap_claim_across(arena.blocks_committed, n, bi)
         run == [arena_index |-> ai, bitmap_index |-> bi, blocks |-> n,
                 memid |-> th[t].memid, size |-> th[t].size, p |-> th[t].p]
     IN /\ IF ~HasCommitted(arena)
           THEN /\ mi_arenas' = [mi_arenas EXCEPT ![ai] =
                     Set(@, [blocks_dirty |-> dirty.bitmap])]
                /\ os_calls' = <<>>
                /\ Return(t, ArenaResult(t, TRUE, dirty.ret, FALSE))
           ELSE IF th[t].commit
           THEN /\ mi_arenas' = [mi_arenas EXCEPT ![ai] =
                     Set(@, [blocks_dirty |-> dirty.bitmap,
                             blocks_committed |-> com.bitmap])]
                /\ os_calls' = IF com.any_zero
                               THEN <<[op |-> "commit", arena_index |-> ai,
                                       blocks |-> BitRange(bi, n)]>>
                               ELSE <<>>
                /\ Return(t, Set(ArenaResult(t, TRUE,
                                    dirty.ret \/ (com.any_zero /\ commit_zero),
                                    com.any_zero),
                                  [commit_zero |-> com.any_zero /\ commit_zero]))
           ELSE /\ mi_arenas' = [mi_arenas EXCEPT ![ai] =
                     Set(@, [blocks_dirty |-> dirty.bitmap])]
                /\ os_calls' = <<>>
                /\ Return(t, ArenaResult(t,
                     _mi_bitmap_is_claimed_across(arena.blocks_committed, n, bi),
                     dirty.ret, FALSE))
        /\ live' = live \cup {run}
  /\ UNCHANGED <<mi_arena_count, purge_guard, clock, opt, os_brk>> /\ ub' = {}

\* _mi_arena_alloc_aligned, the fall back to the OS; os_ok is whether the OS has
\* memory to give.
AllocOs(t, os_ok) ==
  /\ th[t].pc = "alloc_os"
  /\ UNCHANGED calls
  /\ IF opt.limit_os_alloc \/ th[t].req_arena_id # _mi_arena_id_none
     THEN /\ Return(t, [op |-> "alloc", p |-> 0, memid |-> th[t].memid,
                     errno |-> ENOMEM, large |-> th[t].large,
                     commit |-> th[t].commit, req_commit |-> th[t].commit,
                     req_arena_id |-> th[t].req_arena_id,
                     reserved |-> th[t].reserved, touched |-> th[t].touched])
          /\ os_calls' = <<>>
     ELSE /\ Return(t, [op |-> "alloc", p |-> IF os_ok THEN OsPointer ELSE 0,
                     memid |-> MI_MEMID_OS, is_zero |-> TRUE,
                     large |-> th[t].large, is_pinned |-> (os_ok /\ th[t].large),
                     commit |-> th[t].commit, req_commit |-> th[t].commit,
                     req_arena_id |-> th[t].req_arena_id,
                     reserved |-> th[t].reserved, touched |-> th[t].touched])
          /\ os_calls' = <<[op |-> "alloc", arena_index |-> -1, blocks |-> {}]>>
  /\ UNCHANGED <<mi_arenas, mi_arena_count, purge_guard, clock, opt, os_brk, live>> /\ ub' = {}

\* ------------------------------------------------------------------ registration
\* mi_manage_os_memory_ex: build the descriptor of a region of the caller (the
\* region is one the OS handed out) and go on to register it.
ManageOsMemory(t, size, is_committed, is_large, is_zero, numa_node, exclusive) ==
  /\ th[t].pc = "idle"
  /\ IF size < MI_ARENA_BLOCK_SIZE
     THEN /\ Return(t, [op |-> "add", ok |-> FALSE, arena_id |-> _mi_arena_id_none])
          /\ UNCHANGED os_brk
     ELSE /\ th' = [th EXCEPT ![t] = Set(T0,
                [pc |-> "add_increment", cont |-> "idle",
                 arena |-> mi_arena_new(OsRegion(os_brk), size, is_committed, is_large,
                                        is_zero, numa_node, exclusive)])]
          /\ ret' = R0
          /\ os_brk' = os_brk + 1
  /\ os_calls' = <<>>
  /\ UNCHANGED <<mi_arenas, mi_arena_count, purge_guard, clock, opt, live>> /\ ub' = {}

\* mi_arena_add: reserve a slot by incrementing the arena count.
AddIncrement(t) ==
  /\ th[t].pc = "add_increment"
  /\ UNCHANGED calls
  /\ mi_arena_count' = mi_arena_count + 1
  /\ Goto(t, [pc |-> IF mi_arena_count >= MI_MAX_ARENAS THEN "add_decrement"
                     ELSE "add_store",
              i |-> mi_arena_count])
  /\ os_calls' = <<>>
  /\ UNCHANGED <<mi_arenas, purge_guard, clock, opt, os_brk, live>> /\ ub' = {}

\* A failing add that keeps the slot count it took.
AddDecrement_leak(t) ==
  /\ th[t].pc = "add_decrement"
  /\ UNCHANGED calls
  /\ IF th[t].cont = "idle"
     THEN Return(t, [op |-> "add", ok |-> FALSE, arena_id |-> -1])
     ELSE /\ Goto(t, NoReserve)
  /\ os_calls' = <<>>
  /\ UNCHANGED <<mi_arenas, mi_arena_count, purge_guard, clock, opt, os_brk, live>>
  /\ ub' = {}

\* mi_arena_add: no slot left, give the count back and fail. A reservation made
\* for an allocation then falls back to the OS.
AddDecrement(t) ==
  /\ th[t].pc = "add_decrement"
  /\ UNCHANGED calls
  /\ mi_arena_count' = mi_arena_count - 1
  /\ IF th[t].cont = "idle"
     THEN Return(t, [op |-> "add", ok |-> FALSE, arena_id |-> -1])
     ELSE /\ Goto(t, NoReserve)
  /\ os_calls' = <<>>
  /\ UNCHANGED <<mi_arenas, purge_guard, clock, opt, os_brk, live>> /\ ub' = {}

\* mi_arena_add: publish the descriptor in the reserved slot.
AddStore(t) ==
  /\ th[t].pc = "add_store"
  /\ UNCHANGED calls
  /\ mi_arenas' = [mi_arenas EXCEPT ![th[t].i] = th[t].arena]
  /\ Goto(t, [pc |-> "add_set_id", arena |-> NullArena])
  /\ os_calls' = <<>>
  /\ UNCHANGED <<mi_arena_count, purge_guard, clock, opt, os_brk, live>> /\ ub' = {}

\* mi_arena_add: give the published descriptor its id and return it.
AddSetId(t) ==
  /\ th[t].pc = "add_set_id"
  /\ UNCHANGED calls
  /\ mi_arenas' = [mi_arenas EXCEPT ![th[t].i] =
       Set(@, [id |-> mi_arena_id_create(th[t].i)])]
  /\ IF th[t].cont = "idle"
     THEN Return(t, [op |-> "add", ok |-> TRUE,
                     arena_id |-> mi_arena_id_create(th[t].i),
                     arena_index |-> th[t].i])
     ELSE /\ Goto(t, [pc |-> "alloc_in", arena_id |-> mi_arena_id_create(th[t].i)])
  /\ os_calls' = <<>>
  /\ UNCHANGED <<mi_arena_count, purge_guard, clock, opt, os_brk, live>> /\ ub' = {}

\* An eager reservation that does not look at the number of arenas.
AllocReserve_unlimited(t, os_ok, os_large) ==
  /\ th[t].pc = "alloc_reserve"
  /\ UNCHANGED calls
  /\ LET eager_reserve == _mi_align_up(opt.arena_reserve, MI_ARENA_BLOCK_SIZE)
         large == th[t].large /\ os_large
     IN IF /\ eager_reserve > 0 /\ eager_reserve >= th[t].size
           /\ th[t].req_arena_id = _mi_arena_id_none
        THEN IF os_ok
             THEN /\ Goto(t, [pc |-> "add_increment", cont |-> "alloc_in",
                              reserved |-> TRUE, touched |-> TRUE,
                              arena |-> mi_arena_new(OsRegion(os_brk), eager_reserve,
                                                     large, large, TRUE, -1, FALSE)])
                  /\ os_brk' = os_brk + 1
             ELSE /\ Goto(t, [pc |-> "alloc_os", reserved |-> TRUE])
                  /\ UNCHANGED os_brk
        ELSE /\ Goto(t, [pc |-> "alloc_os"])
             /\ UNCHANGED os_brk
  /\ os_calls' = <<>>
  /\ UNCHANGED <<mi_arenas, mi_arena_count, purge_guard, clock, opt, live>> /\ ub' = {}

\* _mi_arena_alloc_aligned after no arena served the request: eagerly reserve a
\* new arena when that is enabled, large enough, no arena was named and there
\* are not too many arenas; mi_reserve_os_memory_ex then takes a region from
\* the OS (os_ok: it has one; os_large: it comes in large pages) and
\* mi_manage_os_memory_ex builds its descriptor.
AllocReserve(t, os_ok, os_large) ==
  /\ th[t].pc = "alloc_reserve"
  /\ UNCHANGED calls
  /\ LET eager_reserve == _mi_align_up(opt.arena_reserve, MI_ARENA_BLOCK_SIZE)
         large == th[t].large /\ os_large
     IN IF /\ eager_reserve > 0 /\ eager_reserve >= th[t].size
           /\ th[t].req_arena_id = _mi_arena_id_none
           /\ mi_arena_count < 3 * (MI_MAX_ARENAS \div 4)
        THEN IF os_ok
             THEN /\ Goto(t, [pc |-> "add_increment", cont |-> "alloc_in",
                              reserved |-> TRUE, touched |-> TRUE,
                              arena |-> mi_arena_new(OsRegion(os_brk), eager_reserve,
                                                     large, large, TRUE, -1, FALSE)])
                  /\ os_brk' = os_brk + 1
             ELSE /\ Goto(t, [pc |-> "alloc_os", reserved |-> TRUE])
                  /\ UNCHANGED os_brk
        ELSE /\ Goto(t, [pc |-> "alloc_os"])
             /\ UNCHANGED os_brk
  /\ os_calls' = <<>>
  /\ UNCHANGED <<mi_arenas, mi_arena_count, purge_guard, clock, opt, live>> /\ ub' = {}

\* mi_arena_alloc_in: allocate in the arena that was just reserved.
AllocIn(t) ==
  /\ th[t].pc = "alloc_in"
  /\ UNCHANGED calls
  /\ LET arena_index == mi_arena_id_index(th[t].arena_id)
         arena == LoadSlot(arena_index)
     IN IF /\ arena_index < mi_arena_count
           /\ ~arena.null
           /\ ~(arena.numa_node >= 0 /\ arena.numa_node # th[t].numa_node)
           /\ ~(~th[t].large /\ arena.is_large)
        THEN AllocFromClaim(t, arena_index, NoReserve)
        ELSE /\ Goto(t, NoReserve)
             /\ UNCHANGED mi_arenas
  /\ os_calls' = <<>>
  /\ UNCHANGED <<mi_arena_count, purge_guard, clock, opt, os_brk, live>> /\ ub' = {}

\* ------------------------------------------------------------------ purge
\* mi_os_purge: decommit, or only reset; returns whether it decommitted. os_ok
\* is whether the OS call succeeded, which mi_os_purge does not look at.
mi_os_purge(os_ok) ==
  IF opt.reset_decommits /\ ~opt.preloading
  THEN [op |-> "decommit", decommitted |-> TRUE, ok |-> os_ok]
  ELSE [op |-> "reset", decommitted |-> FALSE, ok |-> os_ok]

\* mi_arena_purge: purge a run through the OS and update the committed and the
\* purge bitmap when it was decommitted.
mi_arena_purge(arena, arena_index, bitmap_idx, blocks, os_ok) ==
  LET os == mi_os_purge(os_ok)
  IN [call |-> [op |-> os.op, arena_index |-> arena_index, ok |-> os.ok,
                blocks |-> BitRange(mi_bitmap_index_bit(bitmap_idx), blocks)],
      arena |-> IF os.decommitted
                THEN Set(arena,
                       [blocks_committed |-> _mi_bitmap_unclaim_across(
                          arena.blocks_committed, blocks, bitmap_idx).bitmap,
                        blocks_purge |-> _mi_bitmap_unclaim_across(
                          arena.blocks_purge, blocks, bitmap_idx).bitmap])
                ELSE arena]

\* (purge & ((size_t)1 << bit)) == 1, for the value purge of one field.
PurgeBitEqualsOne(purge, bit) == (IF bit \in purge THEN 2 ^ bit ELSE 0) = 1

\* The inner loop of mi_arena_purge_range: the length of the run at bitidx.
RECURSIVE PurgeRunLength(_, _, _, _)
PurgeRunLength(purge, bitidx, endidx, count) ==
  IF bitidx + count < endidx /\ PurgeBitEqualsOne(purge, bitidx + count)
  THEN PurgeRunLength(purge, bitidx, endidx, count + 1)
  ELSE count

\* The outer loop of mi_arena_purge_range from position bitidx on; acc carries
\* the descriptor, the OS calls made and all_purged.
RECURSIVE PurgeRangeLoop(_, _, _, _, _, _, _, _)
PurgeRangeLoop(acc, arena_index, idx, bitidx, endidx, bitlen, purge, os_ok) ==
  IF bitidx >= endidx THEN acc
  ELSE LET count == PurgeRunLength(purge, bitidx, endidx, 0)
           r == mi_arena_purge(acc.arena, arena_index,
                               mi_bitmap_index_create(idx, bitidx), count, os_ok)
           next == IF count > 0
                   THEN [arena |-> r.arena,
                         calls |-> Append(acc.calls, r.call),
                         all_purged |-> (acc.all_purged \/ count = bitlen)]
                   ELSE acc
       IN PurgeRangeLoop(next, arena_index, idx, bitidx + count + 1, endidx,
                         bitlen, purge, os_ok)

\* mi_arena_purge_range: purge the runs of set purge bits within the bitlen
\* bits from startidx of field idx; all_purged tells that it was one full run.
mi_arena_purge_range(arena, arena_index, idx, startidx, bitlen, purge, os_ok) ==
  PurgeRangeLoop([arena |-> arena, calls |-> <<>>, all_purged |-> FALSE],
                 arena_index, idx, startidx, startidx + bitlen, bitlen, purge,
                 os_ok)

\* ------------------------------------------------------------------ free
\* _mi_arena_free up to the purge scheduling: an OS allocation is passed to the
\* OS; otherwise the memid is decoded and checked, and for an arena that can
\* decommit mi_arena_schedule_purge begins, loading purge_expire.
FreeBegin(t, p, size, memid) ==
  /\ th[t].pc = "idle"
  /\ live' = { a \in live : ~(a.p = p /\ a.memid = memid) }
  /\ LET d == mi_arena_memid_indices(memid)
         arena == LoadSlot(d.arena_index)
         blocks == mi_block_count_of_size(size)
         base == Set(T0, [size |-> size, memid |-> memid, p |-> p,
                          arena_index |-> d.arena_index,
                          bitmap_index |-> d.bitmap_index, blocks |-> blocks])
         done(e) == [op |-> "free", errno |-> e, memid |-> memid, blocks |-> blocks,
                     bitmap_index |-> d.bitmap_index]
     IN IF p = 0 \/ size = 0 \/ memid = MI_MEMID_OS
        THEN Return(t, done(0)) /\ ub' = {}
        ELSE IF arena.null
        THEN /\ Return(t, done(EINVAL))
             /\ ub' = IF d.arena_index \in DOMAIN mi_arenas THEN {}
                      ELSE {"slot out of bounds"}
        ELSE IF arena.field_count <= mi_bitmap_index_field(d.bitmap_index)
        THEN Return(t, done(EINVAL)) /\ ub' = {}
        ELSE /\ ret' = R0
             /\ ub' = {}
             /\ th' = [th EXCEPT ![t] =
                  IF ~arena.allow_decommit \/ ~HasCommitted(arena)
                  THEN Set(base, [pc |-> "free_unclaim"])
                  ELSE IF opt.preloading \/ opt.arena_purge_delay = 0
                  THEN Set(base, [pc |-> "free_purge"])
                  ELSE Set(base, [pc |-> "free_schedule",
                                  expire |-> arena.purge_expire])]
  /\ os_calls' = <<>>
  /\ UNCHANGED <<mi_arenas, mi_arena_count, purge_guard, clock, opt, os_brk>>

\* mi_arena_schedule_purge, no delay: purge the run directly. os_ok is whether
\* the OS call succeeds.
FreePurge(t, os_ok) ==
  /\ th[t].pc = "free_purge"
  /\ UNCHANGED calls
  /\ LET ai == th[t].arena_index
         r == mi_arena_purge(mi_arenas[ai], ai, th[t].bitmap_index, th[t].blocks,
                             os_ok)
     IN /\ mi_arenas' = [mi_arenas EXCEPT ![ai] = r.arena]
        /\ os_calls' = <<r.call>>
  /\ Goto(t, [pc |-> "free_unclaim"])
  /\ UNCHANGED <<mi_arena_count, purge_guard, clock, opt, os_brk, live>> /\ ub' = {}

\* A scheduling that leaves the expiration as it is.
FreeSchedule_unset(t) ==
  /\ th[t].pc = "free_schedule"
  /\ UNCHANGED calls
  /\ Goto(t, [pc |-> "free_claim_purge"])
  /\ os_calls' = <<>>
  /\ UNCHANGED <<mi_arenas, mi_arena_count, purge_guard, clock, opt, os_brk, live>>
  /\ ub' = {}

\* mi_arena_schedule_purge, delayed: push a pending expiration a little, or set
\* the expiration to now + delay.
FreeSchedule(t) ==
  /\ th[t].pc = "free_schedule"
  /\ UNCHANGED calls
  /\ LET ai == th[t].arena_index
         delay == opt.arena_purge_delay
         expire == IF th[t].expire # 0
                   THEN mi_arenas[ai].purge_expire + (delay \div 10)
                   ELSE clock + delay
     IN /\ expire <= MaxExpire
        /\ mi_arenas' = [mi_arenas EXCEPT ![ai] = Set(@, [purge_expire |-> expire])]
  /\ Goto(t, [pc |-> "free_claim_purge"])
  /\ os_calls' = <<>>
  /\ UNCHANGED <<mi_arena_count, purge_guard, clock, opt, os_brk, live>> /\ ub' = {}

\* A free that releases the run at the moment it sets the purge bits.
FreeClaimPurge_released(t) ==
  /\ th[t].pc = "free_claim_purge"
  /\ UNCHANGED calls
  /\ mi_arenas' = [mi_arenas EXCEPT ![th[t].arena_index] =
       Set(@, [blocks_purge |-> _mi_bitmap_claim_across(
                 @.blocks_purge, th[t].blocks, th[t].bitmap_index).bitmap,
               blocks_inuse |-> _mi_bitmap_unclaim_across(
                 @.blocks_inuse, th[t].blocks, th[t].bitmap_index).bitmap])]
  /\ Goto(t, [pc |-> "free_unclaim"])
  /\ os_calls' = <<>>
  /\ UNCHANGED <<mi_arena_count, purge_guard, clock, opt, os_brk, live>>
  /\ ub' = {}

\* mi_arena_schedule_purge, delayed: set the purge bits of the run.
FreeClaimPurge(t) ==
  /\ th[t].pc = "free_claim_purge"
  /\ UNCHANGED calls
  /\ mi_arenas' = [mi_arenas EXCEPT ![th[t].arena_index] =
       Set(@, [blocks_purge |-> _mi_bitmap_claim_across(
                 @.blocks_purge, th[t].blocks, th[t].bitmap_index).bitmap])]
  /\ Goto(t, [pc |-> "free_unclaim"])
  /\ os_calls' = <<>>
  /\ UNCHANGED <<mi_arena_count, purge_guard, clock, opt, os_brk, live>> /\ ub' = {}

\* A free that releases the run and never reports a double free.
FreeUnclaim_silent(t) ==
  /\ th[t].pc = "free_unclaim"
  /\ UNCHANGED calls
  /\ LET ai == th[t].arena_index
         r == _mi_bitmap_unclaim_across(mi_arenas[ai].blocks_inuse, th[t].blocks,
                                        th[t].bitmap_index)
     IN /\ mi_arenas' = [mi_arenas EXCEPT ![ai] = Set(@, [blocks_inuse |-> r.bitmap])]
        /\ Return(t, [op |-> "free", errno |-> 0,
                      memid |-> th[t].memid, arena_index |-> ai,
                      bitmap_index |-> th[t].bitmap_index, blocks |-> th[t].blocks,
                      all_inuse |-> r.all_one])
  /\ os_calls' = <<>>
  /\ UNCHANGED <<mi_arena_count, purge_guard, clock, opt, os_brk, live>>
  /\ ub' = {}

\* _mi_arena_free, the end: make the run available again; a bit that was
\* already clear is reported as a double free.
FreeUnclaim(t) ==
  /\ th[t].pc = "free_unclaim"
  /\ UNCHANGED calls
  /\ LET ai == th[t].arena_index
         r == _mi_bitmap_unclaim_across(mi_arenas[ai].blocks_inuse, th[t].blocks,
                                        th[t].bitmap_index)
     IN /\ mi_arenas' = [mi_arenas EXCEPT ![ai] = Set(@, [blocks_inuse |-> r.bitmap])]
        /\ Return(t, [op |-> "free", errno |-> IF r.all_one THEN 0 ELSE EAGAIN,
                      memid |-> th[t].memid, arena_index |-> ai,
                      bitmap_index |-> th[t].bitmap_index, blocks |-> th[t].blocks,
                      all_inuse |-> r.all_one])
  /\ os_calls' = <<>>
  /\ UNCHANGED <<mi_arena_count, purge_guard, clock, opt, os_brk, live>> /\ ub' = {}

\* ------------------------------------------------------------------ purge engine
\* The scan of mi_arena_try_purge over the value purge of one field: the first
\* run of set bits at or after bitidx, or a run of length 0 if there is none.
NextPurgeRun(purge, bitidx) ==
  LET S == { b \in purge : b >= bitidx }
  IN IF S = {} THEN [bitidx |-> MI_BITMAP_FIELD_BITS, bitlen |-> 0]
     ELSE LET b == CHOOSE x \in S : \A y \in S : x <= y
              stop == CHOOSE e \in (b + 1) .. MI_BITMAP_FIELD_BITS :
                        /\ \A k \in b .. (e - 1) : k \in purge
                        /\ (e = MI_BITMAP_FIELD_BITS \/ e \notin purge)
          IN [bitidx |-> b, bitlen |-> stop - b]

\* mi_arenas_try_purge after mi_arena_try_purge returned did for arena i: stop
\* when enough arenas were purged or all were visited, releasing the guard.
PurgeNextArena(t, did) ==
  IF (did /\ th[t].max_purge_count <= 1) \/ th[t].i + 1 >= th[t].max_arena
  THEN /\ purge_guard' = FALSE
       /\ Return(t, [op |-> "purge"])
  ELSE /\ Goto(t, [pc |-> "purge_arena", i |-> th[t].i + 1,
                   max_purge_count |-> IF did THEN th[t].max_purge_count - 1
                                       ELSE th[t].max_purge_count,
                   expire |-> 0, purge |-> {}, fi |-> 0, bitidx |-> 0,
                   bitlen |-> 0, any_purged |-> FALSE, full_purge |-> TRUE])
       /\ UNCHANGED purge_guard

\* mi_arena_try_purge, scanning on in field fi from bitidx with the value purge
\* it holds of the field: on to the next run, the next field, or the end.
PurgeAdvance(t, purge, bitidx, any_purged, full_purge) ==
  LET run == NextPurgeRun(purge, bitidx)
      field_count == mi_arenas[th[t].i].field_count
  IN IF run.bitlen > 0
     THEN /\ Goto(t, [pc |-> "purge_try_claim", purge |-> purge,
                      bitidx |-> run.bitidx, bitlen |-> run.bitlen,
                      any_purged |-> any_purged, full_purge |-> full_purge])
          /\ UNCHANGED purge_guard
     ELSE IF th[t].fi + 1 < field_count
     THEN /\ Goto(t, [pc |-> "purge_field", fi |-> th[t].fi + 1, purge |-> {},
                      bitidx |-> 0, bitlen |-> 0,
                      any_purged |-> any_purged, full_purge |-> full_purge])
          /\ UNCHANGED purge_guard
     ELSE PurgeNextArena(t, any_purged)

\* mi_arenas_try_purge, entry: nothing to do when purges are not delayed or
\* there is no arena.
PurgeBegin(t, force, visit_all) ==
  /\ th[t].pc = "idle"
  /\ IF opt.preloading \/ opt.arena_purge_delay = 0 \/ mi_arena_count = 0
     THEN Return(t, [op |-> "purge"])
     ELSE /\ th' = [th EXCEPT ![t] = Set(T0,
                [pc |-> "purge_guard", force |-> force,
                 max_arena |-> mi_arena_count,
                 max_purge_count |-> IF visit_all THEN mi_arena_count ELSE 1])]
          /\ ret' = R0
  /\ os_calls' = <<>>
  /\ UNCHANGED <<mi_arenas, mi_arena_count, purge_guard, clock, opt, os_brk, live>> /\ ub' = {}

\* A guard that lets every caller into the scan.
PurgeGuard_open(t) ==
  /\ th[t].pc = "purge_guard"
  /\ UNCHANGED calls
  /\ purge_guard' = TRUE
  /\ Goto(t, [pc |-> "purge_arena", now |-> clock, i |-> 0])
  /\ os_calls' = <<>>
  /\ UNCHANGED <<mi_arenas, mi_arena_count, clock, opt, os_brk, live>>
  /\ ub' = {}

\* mi_arenas_try_purge: only one thread purges at a time.
PurgeGuard(t) ==
  /\ th[t].pc = "purge_guard"
  /\ UNCHANGED calls
  /\ IF purge_guard
     THEN /\ Return(t, [op |-> "purge", ok |-> FALSE])
          /\ UNCHANGED purge_guard
     ELSE /\ purge_guard' = TRUE
          /\ Goto(t, [pc |-> "purge_arena", now |-> clock, i |-> 0])
  /\ os_calls' = <<>>
  /\ UNCHANGED <<mi_arenas, mi_arena_count, clock, opt, os_brk, live>> /\ ub' = {}

\* mi_arenas_try_purge loads slot i and mi_arena_try_purge starts on it: an
\* arena that cannot decommit, has nothing pending or is not yet expired is
\* skipped. The descriptor is dereferenced without a test for NULL.
PurgeArena(t) ==
  /\ th[t].pc = "purge_arena"
  /\ UNCHANGED calls
  /\ LET arena == LoadSlot(th[t].i)
     IN IF arena.null
        THEN /\ ub' = {IF th[t].i \in DOMAIN mi_arenas
                               THEN "null dereference" ELSE "slot out of bounds"}
             /\ Goto(t, [pc |-> "crashed"])
             /\ UNCHANGED purge_guard
        ELSE /\ ub' = {}
             /\ IF \/ ~arena.allow_decommit \/ ~HasPurge(arena)
                   \/ arena.purge_expire = 0
                   \/ (~th[t].force /\ arena.purge_expire > th[t].now)
                THEN PurgeNextArena(t, FALSE)
                ELSE /\ Goto(t, [pc |-> "purge_cas", expire |-> arena.purge_expire])
                     /\ UNCHANGED purge_guard
  /\ os_calls' = <<>>
  /\ UNCHANGED <<mi_arenas, mi_arena_count, clock, opt, os_brk, live>>

\* mi_arena_try_purge: reset the expiration unless it was changed meanwhile.
PurgeCas(t) ==
  /\ th[t].pc = "purge_cas"
  /\ UNCHANGED calls
  /\ mi_arenas' = [mi_arenas EXCEPT ![th[t].i] =
       IF @.purge_expire = th[t].expire THEN Set(@, [purge_expire |-> 0]) ELSE @]
  /\ Goto(t, [pc |-> "purge_field", fi |-> 0])
  /\ os_calls' = <<>>
  /\ UNCHANGED <<mi_arena_count, purge_guard, clock, opt, os_brk, live>> /\ ub' = {}

\* mi_arena_try_purge: load field fi of the purge bitmap and find its first run.
PurgeField(t) ==
  /\ th[t].pc = "purge_field"
  /\ UNCHANGED calls
  /\ PurgeAdvance(t, FieldOf(mi_arenas[th[t].i].blocks_purge, th[t].fi), 0,
                  th[t].any_purged, th[t].full_purge)
  /\ os_calls' = <<>>
  /\ UNCHANGED <<mi_arenas, mi_arena_count, clock, opt, os_brk, live>> /\ ub' = {}

\* A purge pass that goes on without taking the in-use bits of the run.
PurgeClaimRun_none(inuse, bitlen, bitmap_index) ==
  [ok |-> TRUE, bitmap |-> inuse]

\* The claim of mi_arena_try_purge on the in-use bits of a run of purge bits.
PurgeClaimRun(inuse, bitlen, bitmap_index) ==
  _mi_bitmap_try_claim(inuse, bitlen, bitmap_index)

\* mi_arena_try_purge: try to claim the in-use bits of the run; on failure try
\* one block less, and with no block left go on after the first bit of the run.
PurgeTryClaim(t) ==
  /\ th[t].pc = "purge_try_claim"
  /\ UNCHANGED calls
  /\ LET r == PurgeClaimRun(mi_arenas[th[t].i].blocks_inuse, th[t].bitlen,
                            mi_bitmap_index_create(th[t].fi, th[t].bitidx))
     IN IF r.ok
        THEN /\ mi_arenas' = [mi_arenas EXCEPT ![th[t].i] =
                  Set(@, [blocks_inuse |-> r.bitmap])]
             /\ Goto(t, [pc |-> "purge_reread"])
             /\ UNCHANGED purge_guard
        ELSE /\ UNCHANGED mi_arenas
             /\ IF th[t].bitlen > 1
                THEN /\ Goto(t, [bitlen |-> th[t].bitlen - 1])
                     /\ UNCHANGED purge_guard
                ELSE PurgeAdvance(t, th[t].purge, th[t].bitidx + 1,
                                  th[t].any_purged, th[t].full_purge)
  /\ os_calls' = <<>>
  /\ UNCHANGED <<mi_arena_count, clock, opt, os_brk, live>> /\ ub' = {}

\* mi_arena_try_purge with the in-use bits of the run claimed: read the purge
\* field again.
PurgeReread(t) ==
  /\ th[t].pc = "purge_reread"
  /\ UNCHANGED calls
  /\ Goto(t, [pc |-> "purge_range",
              purge |-> FieldOf(mi_arenas[th[t].i].blocks_purge, th[t].fi)])
  /\ os_calls' = <<>>
  /\ UNCHANGED <<mi_arenas, mi_arena_count, purge_guard, clock, opt, os_brk, live>> /\ ub' = {}

\* mi_arena_try_purge: purge the claimed run as far as the purge field read
\* says, and scan on behind it. The claimed in-use bits are left as they are.
\* os_ok is whether the OS calls succeed.
PurgeRange(t, os_ok) ==
  /\ th[t].pc = "purge_range"
  /\ UNCHANGED calls
  /\ LET r == mi_arena_purge_range(mi_arenas[th[t].i], th[t].i, th[t].fi,
                                   th[t].bitidx, th[t].bitlen, th[t].purge, os_ok)
     IN /\ mi_arenas' = [mi_arenas EXCEPT ![th[t].i] = r.arena]
        /\ os_calls' = r.calls
        /\ PurgeAdvance(t, th[t].purge, th[t].bitidx + th[t].bitlen, TRUE,
                        th[t].full_purge /\ r.all_purged)
  /\ UNCHANGED <<mi_arena_count, clock, opt, os_brk, live>> /\ ub' = {}

\* The clock advances.
Tick ==
  /\ clock < MaxTime
  /\ clock' = clock + TickMs
  /\ UNCHANGED calls
  /\ os_calls' = <<>>
  /\ ret' = R0
  /\ UNCHANGED <<mi_arenas, mi_arena_count, purge_guard, opt, os_brk, th, live>> /\ ub' = {}

\* ------------------------------------------------------------------ specifications
Slots == 0 .. (MI_MAX_ARENAS - 1)

Quiescent == \A t \in Threads : th[t].pc = "idle"

\* One arena that can decommit, registered before the threads start: they
\* allocate from it, free what was allocated and run purge passes.
InitArena ==
  /\ mi_arenas = [i \in Slots |->
       IF i = 0
       THEN Set(mi_arena_new(OsRegion(0), ArenaBlocks * MI_ARENA_BLOCK_SIZE,
                             FALSE, FALSE, TRUE, -1, FALSE),
                [id |-> mi_arena_id_create(0)])
       ELSE NullArena]
  /\ mi_arena_count = 1
  /\ purge_guard = FALSE
  /\ clock = 1
  /\ opt \in [arena_reserve : {0}, arena_purge_delay : {0, 5},
              reset_decommits : BOOLEAN, limit_os_alloc : {TRUE},
              preloading : {FALSE}]
  /\ os_brk = 1
  /\ th = [t \in Threads |-> T0]
  /\ ret = R0
  /\ live = {}
  /\ os_calls = <<>>
  /\ ub = {}
  /\ calls = 0

AllocSteps(t) ==
  \/ AllocWalk(t)
  \/ AllocUnclaimPurge(t)
  \/ \E commit_zero \in BOOLEAN : AllocCommit(t, commit_zero)
  \/ \E os_ok, os_large \in BOOLEAN : AllocReserve(t, os_ok, os_large)
  \/ \E os_ok \in BOOLEAN : AllocOs(t, os_ok)

FreeSteps(t) ==
  \/ \E os_ok \in BOOLEAN : FreePurge(t, os_ok)
  \/ FreeSchedule(t)
  \/ FreeClaimPurge(t)
  \/ FreeUnclaim(t)

PurgeSteps(t) ==
  \/ PurgeGuard(t)
  \/ PurgeArena(t)
  \/ PurgeCas(t)
  \/ PurgeField(t)
  \/ PurgeTryClaim(t)
  \/ PurgeReread(t)
  \/ \E os_ok \in BOOLEAN : PurgeRange(t, os_ok)

\* An operation begins, within the bound on their number.
Call == calls < MaxCalls /\ calls' = calls + 1

NextArena ==
  \/ \E t \in Threads :
       \/ \E size \in {2, 8}, commit \in BOOLEAN :
            /\ AllocBegin(t, size, MI_SEGMENT_ALIGN, 0, commit, FALSE,
                          _mi_arena_id_none, 0)
            /\ UNCHANGED calls
       \/ AllocSteps(t)
       \/ \E a \in live : FreeBegin(t, a.p, a.size, a.memid) /\ UNCHANGED calls
       \/ FreeSteps(t)
       \/ \E force, visit_all \in BOOLEAN :
            t = Purger /\ PurgeBegin(t, force, visit_all) /\ UNCHANGED calls
       \/ PurgeSteps(t)
  \/ Tick

SpecArena == InitArena /\ [][NextArena]_vars

\* Arenas are registered while the threads allocate: explicit registrations of
\* committed regions, exclusive or not, and the eager reservations of the
\* allocation path. The registry starts empty or with all slots but one taken
\* (the arena of slot 0 exclusive). Nothing is freed.
Registered(n) ==
  [i \in Slots |->
     IF i < n
     THEN Set(mi_arena_new(OsRegion(i), ArenaBlocks * MI_ARENA_BLOCK_SIZE,
                           TRUE, FALSE, FALSE, -1, i = 0),
              [id |-> mi_arena_id_create(i)])
     ELSE NullArena]

InitRegistry ==
  /\ \E n \in {0, MI_MAX_ARENAS - 1} :
       /\ mi_arenas = Registered(n)
       /\ mi_arena_count = n
       /\ os_brk = n
  /\ purge_guard = FALSE
  /\ clock = 1
  /\ opt \in [arena_reserve : {0, ArenaBlocks * MI_ARENA_BLOCK_SIZE},
              arena_purge_delay : {0}, reset_decommits : {TRUE},
              limit_os_alloc : {FALSE}, preloading : {FALSE}]
  /\ th = [t \in Threads |-> T0]
  /\ ret = R0
  /\ live = {}
  /\ os_calls = <<>>
  /\ ub = {}
  /\ calls = 0

AddSteps(t) ==
  \/ AddIncrement(t)
  \/ AddDecrement(t)
  \/ AddStore(t)
  \/ AddSetId(t)

\* The arena ids a request may name: none, the ids of the first two slots, and
\* an id beyond the registry.
RequestIds == {_mi_arena_id_none, 1, 2, MI_MAX_ARENAS + 1}

NextRegistry ==
  \E t \in Threads :
    \/ \E size \in {1, ArenaBlocks * MI_ARENA_BLOCK_SIZE}, exclusive \in BOOLEAN :
         /\ t = Registrar
         /\ ManageOsMemory(t, size, TRUE, FALSE, FALSE, -1, exclusive)
         /\ Call
    \/ \E size \in {1, 2}, req_arena_id \in RequestIds :
         /\ AllocBegin(t, size, MI_SEGMENT_ALIGN, 0, TRUE, FALSE, req_arena_id, 0)
         /\ Call
    \/ AddSteps(t)
    \/ AllocSpecific(t)
    \/ AllocIn(t)
    \/ AllocSteps(t)

SpecRegistry == InitRegistry /\ [][NextRegistry]_vars

\* One thread allocates, from a registry that starts empty, one below the
\* reserve limit or at the limit, with the eager reservation off, smaller than
\* a block or two blocks large. Requests take one or two blocks and name no
\* arena or the exclusive arena of slot 0.
InitReserve ==
  /\ \E n \in {0, (3 * (MI_MAX_ARENAS \div 4)) - 1, 3 * (MI_MAX_ARENAS \div 4)} :
       /\ mi_arenas = Registered(n)
       /\ mi_arena_count = n
       /\ os_brk = n
  /\ purge_guard = FALSE
  /\ clock = 1
  /\ opt \in [arena_reserve : {0, MI_ARENA_BLOCK_SIZE - 1,
                               ArenaBlocks * MI_ARENA_BLOCK_SIZE},
              arena_purge_delay : {0}, reset_decommits : {TRUE},
              limit_os_alloc : {FALSE}, preloading : {FALSE}]
  /\ th = [t \in Threads |-> T0]
  /\ ret = R0
  /\ live = {}
  /\ os_calls = <<>>
  /\ ub = {}
  /\ calls = 0

NextReserve ==
  \/ \E size \in {MI_ARENA_BLOCK_SIZE, ArenaBlocks * MI_ARENA_BLOCK_SIZE},
        req_arena_id \in {_mi_arena_id_none, 1} :
       /\ AllocBegin(Registrar, size, MI_SEGMENT_ALIGN, 0, TRUE, FALSE, req_arena_id, 0)
       /\ Call
  \/ AllocSpecific(Registrar)
  \/ AllocSteps(Registrar)
  \/ AddIncrement(Registrar)
  \/ AddStore(Registrar)
  \/ AddSetId(Registrar)
  \/ AllocIn(Registrar)

SpecReserve == InitReserve /\ [][NextReserve]_vars

\* A registry whose slots are all taken, by arenas that serve no request that
\* names no arena: they are exclusive. One thread registers further regions,
\* which fails; both threads walk the registry to allocate and to purge.
InitFull ==
  /\ \E numa_node \in {-1, 1} :
       mi_arenas = [i \in Slots |->
         Set(mi_arena_new(OsRegion(i), ArenaBlocks * MI_ARENA_BLOCK_SIZE,
                          TRUE, FALSE, FALSE, numa_node, TRUE),
             [id |-> mi_arena_id_create(i)])]
  /\ mi_arena_count = MI_MAX_ARENAS
  /\ os_brk = MI_MAX_ARENAS
  /\ purge_guard = FALSE
  /\ clock = 1
  /\ opt \in [arena_reserve : {0}, arena_purge_delay : {5},
              reset_decommits : {TRUE}, limit_os_alloc : BOOLEAN,
              preloading : {FALSE}]
  /\ th = [t \in Threads |-> T0]
  /\ ret = R0
  /\ live = {}
  /\ os_calls = <<>>
  /\ ub = {}
  /\ calls = 0

NextFull ==
  \E t \in Threads :
    \/ /\ t = Registrar
       /\ ManageOsMemory(t, ArenaBlocks * MI_ARENA_BLOCK_SIZE, TRUE, FALSE, FALSE,
                         -1, FALSE)
       /\ Call
    \/ AddIncrement(t)
    \/ AddDecrement(t)
    \/ \E size \in {2, 8} :
         /\ AllocBegin(t, size, MI_SEGMENT_ALIGN, 0, TRUE, FALSE, _mi_arena_id_none, 0)
         /\ Call
    \/ AllocWalk(t)
    \/ \E os_ok, os_large \in BOOLEAN : AllocReserve(t, os_ok, os_large)
    \/ \E os_ok \in BOOLEAN : AllocOs(t, os_ok)
    \/ \E force, visit_all \in BOOLEAN : PurgeBegin(t, force, visit_all) /\ Call
    \/ PurgeGuard(t)
    \/ PurgeArena(t)

SpecFull == InitFull /\ [][NextFull]_vars

\* One arena that can decommit, a thread that allocates and one that frees
\* whatever it likes: runs
\* that are live, runs that were freed before, block indices beyond the arena
\* and arenas that do not exist. No purge pass runs.
InitFree ==
  /\ InitArena
  /\ opt.reset_decommits

\* The memids and sizes handed to free: arena ids 0 (none), 1 (the arena) and 2
\* (an empty slot), every block index of the only field and the first of the
\* next one. A run that would leave the bitmap array is left out.
FreeInputs ==
  { x \in [id : 0 .. 2, bitmap_index : 0 .. MI_BITMAP_FIELD_BITS, size : {2, 8}] :
      (x.id = 1 /\ x.bitmap_index < MI_BITMAP_FIELD_BITS)
        => x.bitmap_index + mi_block_count_of_size(x.size) <= MI_BITMAP_FIELD_BITS }

NextFree ==
  \E t \in Threads :
    \/ \E size \in {2, 8} :
         /\ t # Freer
         /\ AllocBegin(t, size, MI_SEGMENT_ALIGN, 0, TRUE, FALSE, _mi_arena_id_none, 0)
         /\ Call
    \/ \E x \in FreeInputs :
         /\ t = Freer
         /\ FreeBegin(t, OsRegion(0) + x.bitmap_index * MI_ARENA_BLOCK_SIZE, x.size,
                      mi_arena_memid_create(x.id, FALSE, x.bitmap_index))
         /\ Call
    \/ AllocSteps(t)
    \/ FreeSteps(t)

SpecFree == InitFree /\ [][NextFree]_vars

\* One arena that can decommit and purges that are delayed: both threads
\* allocate, free what was allocated and call mi_arenas_try_purge, a bounded
\* number of operations in all, while the clock advances.
InitPurge ==
  /\ InitArena
  /\ opt.arena_purge_delay > 0

NextPurge ==
  \/ \E t \in Threads :
       \/ \E size \in {2, 8} :
            /\ AllocBegin(t, size, MI_SEGMENT_ALIGN, 0, TRUE, FALSE,
                          _mi_arena_id_none, 0)
            /\ Call
       \/ AllocSteps(t)
       \/ \E a \in live : FreeBegin(t, a.p, a.size, a.memid) /\ Call
       \/ FreeSchedule(t)
       \/ FreeClaimPurge(t)
       \/ FreeUnclaim(t)
       \/ \E force, visit_all \in BOOLEAN : PurgeBegin(t, force, visit_all) /\ Call
       \/ PurgeSteps(t)
  \/ Tick

SpecPurge == InitPurge /\ [][NextPurge]_vars

\* Both threads register regions, a bounded number in all, in a registry that
\* starts empty or with all slots but one taken.
NextAdd ==
  \E t \in Threads :
    \/ \E size \in {1, ArenaBlocks * MI_ARENA_BLOCK_SIZE}, exclusive \in BOOLEAN :
         /\ ManageOsMemory(t, size, TRUE, FALSE, FALSE, -1, exclusive)
         /\ Call
    \/ AddSteps(t)

SpecAdd == InitRegistry /\ [][NextAdd]_vars

\* Runs are allocated with commit, freed with a purge delay and allocated again;
\* no purge pass runs. The delay is shorter or longer than ten clock units.
InitReuse ==
  /\ mi_arenas = [i \in Slots |->
       IF i = 0
       THEN Set(mi_arena_new(OsRegion(0), ArenaBlocks * MI_ARENA_BLOCK_SIZE,
                             FALSE, FALSE, TRUE, -1, FALSE),
                [id |-> mi_arena_id_create(0)])
       ELSE NullArena]
  /\ mi_arena_count = 1
  /\ purge_guard = FALSE
  /\ clock = 1
  /\ opt \in [arena_reserve : {0}, arena_purge_delay : {TickMs, 4 * TickMs},
              reset_decommits : BOOLEAN, limit_os_alloc : {TRUE},
              preloading : {FALSE}]
  /\ os_brk = 1
  /\ th = [t \in Threads |-> T0]
  /\ ret = R0
  /\ live = {}
  /\ os_calls = <<>>
  /\ ub = {}
  /\ calls = 0

NextReuse ==
  \/ \E t \in Threads :
       \/ \E size \in {2, 8} :
            /\ AllocBegin(t, size, MI_SEGMENT_ALIGN, 0, TRUE, FALSE,
                          _mi_arena_id_none, 0)
            /\ UNCHANGED calls
       \/ AllocSteps(t)
       \/ \E a \in live : FreeBegin(t, a.p, a.size, a.memid) /\ UNCHANGED calls
       \/ FreeSchedule(t)
       \/ FreeClaimPurge(t)
       \/ FreeUnclaim(t)
  \/ Tick

SpecReuse == InitReuse /\ [][NextReuse]_vars

\* A thread allocates and frees while the other keeps running purge passes and
\* the clock advances. A run is freed only while its expiration is a time the
\* clock can reach. Every operation that has begun goes on to its end, purge
\* passes are begun again and again, and the clock advances as far as it can.
InitLive ==
  /\ InitArena
  /\ opt.arena_purge_delay > 0
  /\ opt.reset_decommits

NextLive ==
  \/ \E t \in Threads :
       \/ \E size \in {2, 8} :
            /\ t # Purger
            /\ AllocBegin(t, size, MI_SEGMENT_ALIGN, 0, TRUE, FALSE,
                          _mi_arena_id_none, 0)
            /\ UNCHANGED calls
       \/ AllocSteps(t)
       \/ \E a \in live :
            /\ t # Purger
            /\ clock + opt.arena_purge_delay <= MaxTime
            /\ FreeBegin(t, a.p, a.size, a.memid)
            /\ UNCHANGED calls
       \/ FreeSchedule(t)
       \/ FreeClaimPurge(t)
       \/ FreeUnclaim(t)
       \/ \E force, visit_all \in BOOLEAN :
            t = Purger /\ PurgeBegin(t, force, visit_all) /\ UNCHANGED calls
       \/ PurgeSteps(t)
  \/ Tick

SpecLive ==
  /\ InitLive
  /\ [][NextLive]_vars
  /\ \A t \in Threads :
       WF_vars(AllocSteps(t) \/ FreeSchedule(t) \/ FreeClaimPurge(t)
                 \/ FreeUnclaim(t) \/ PurgeSteps(t))
  /\ WF_vars(\E force, visit_all \in BOOLEAN :
               PurgeBegin(Purger, force, visit_all) /\ UNCHANGED calls)
  /\ WF_vars(Tick)

\* Two arenas, each unpinned or pinned to one of two NUMA nodes, the first
\* uncommitted and the second committed and possibly of large OS pages, serve callers on either node that allow large
\* pages or not. Nothing is freed and nothing is registered.
NumaNodes == {0, 1}

InitNuma ==
  /\ \E n0, n1 \in {-1} \cup NumaNodes, l1 \in BOOLEAN :
       mi_arenas = [i \in Slots |->
         IF i = 0
         THEN Set(mi_arena_new(OsRegion(0), ArenaBlocks * MI_ARENA_BLOCK_SIZE,
                               FALSE, FALSE, TRUE, n0, FALSE),
                  [id |-> mi_arena_id_create(0)])
         ELSE IF i = 1
         THEN Set(mi_arena_new(OsRegion(1), ArenaBlocks * MI_ARENA_BLOCK_SIZE,
                               TRUE, l1, FALSE, n1, FALSE),
                  [id |-> mi_arena_id_create(1)])
         ELSE NullArena]
  /\ mi_arena_count = 2
  /\ os_brk = 2
  /\ purge_guard = FALSE
  /\ clock = 1
  /\ opt \in [arena_reserve : {0}, arena_purge_delay : {0},
              reset_decommits : {TRUE}, limit_os_alloc : {TRUE},
              preloading : {FALSE}]
  /\ th = [t \in Threads |-> T0]
  /\ ret = R0
  /\ live = {}
  /\ os_calls = <<>>
  /\ ub = {}
  /\ calls = 0

NextNuma ==
  \E t \in Threads :
    \/ \E size \in {2, 8}, large \in BOOLEAN, numa_node \in NumaNodes :
         /\ AllocBegin(t, size, MI_SEGMENT_ALIGN, 0, TRUE, large,
                       _mi_arena_id_none, numa_node)
         /\ Call
    \/ AllocSteps(t)

SpecNuma == InitNuma /\ [][NextNuma]_vars

\* Regions are registered while the threads allocate, free and run purge
\* passes over the registry, a bounded number of operations in all.
NextWalk ==
  \/ \E t \in Threads :
       \/ /\ t = Registrar
          /\ ManageOsMemory(t, ArenaBlocks * MI_ARENA_BLOCK_SIZE, TRUE, FALSE, FALSE,
                            -1, FALSE)
          /\ Call
       \/ AddSteps(t)
       \/ \E size \in {2, 8} :
            /\ AllocBegin(t, size, MI_SEGMENT_ALIGN, 0, TRUE, FALSE,
                          _mi_arena_id_none, 0)
            /\ Call
       \/ AllocSteps(t)
       \/ \E a \in live : FreeBegin(t, a.p, a.size, a.memid) /\ Call
       \/ FreeSchedule(t)
       \/ FreeClaimPurge(t)
       \/ FreeUnclaim(t)
       \/ \E force, visit_all \in BOOLEAN : PurgeBegin(t, force, visit_all) /\ Call
       \/ PurgeSteps(t)
  \/ Tick

SpecWalk == InitPurge /\ [][NextWalk]_vars

\* ------------------------------------------------------------------ properties
\* The blocks of the run that thread t has claimed and not yet returned.
ClaimedBlocks(t) ==
  IF th[t].pc \in {"alloc_unclaim_purge", "alloc_commit"}
  THEN BitRange(th[t].bitmap_index, th[t].blocks)
  ELSE {}

\* The blocks whose in-use bits the purge pass of thread t holds claimed.
HeldBlocks(t) ==
  IF th[t].pc \in {"purge_reread", "purge_range"}
  THEN BitRange(mi_bitmap_index_create(th[t].fi, th[t].bitidx), th[t].bitlen)
  ELSE {}

\* C1: no two live allocations of the arena share a block, no two allocation
\* calls have claimed overlapping runs, and no allocation has claimed or holds
\* a block of a run that a purge pass holds claimed in blocks_inuse.
C1_NoOverlap ==
  /\ \A a, b \in live :
       (a # b /\ a.arena_index = b.arena_index)
         => BitRange(a.bitmap_index, a.blocks) \cap BitRange(b.bitmap_index, b.blocks) = {}
  /\ \A t \in Threads :
       /\ ClaimedBlocks(t) \cap LiveBlocks(th[t].arena_index) = {}
       /\ \A u \in Threads \ {t} :
            th[u].arena_index = th[t].arena_index
              => ClaimedBlocks(t) \cap ClaimedBlocks(u) = {}
       /\ HeldBlocks(t) \cap LiveBlocks(th[t].i) = {}
       /\ \A u \in Threads \ {t} :
            th[u].arena_index = th[t].i => HeldBlocks(t) \cap ClaimedBlocks(u) = {}

\* Two allocations are live side by side while a third call has claimed nothing.
C1_Witness ==
  /\ Cardinality(live) = 2
  /\ \E a \in live : a.blocks = 1 /\ a.bitmap_index = 1

\* The OS purge calls (decommit or reset) issued by the last step.
PurgeCalls ==
  { os_calls[k] : k \in { j \in DOMAIN os_calls : os_calls[j].op \in {"decommit", "reset"} } }

\* C2: every block handed to the OS decommit or reset primitive has its in-use
\* bit set by the purging or freeing caller and belongs to no live allocation.
C2_PurgeSparesLive ==
  \A c \in PurgeCalls :
    /\ c.blocks \cap LiveBlocks(c.arena_index) = {}
    /\ c.blocks \subseteq mi_arenas[c.arena_index].blocks_inuse

\* A purge pass decommits a block while another block of the arena is live.
C2_Witness ==
  /\ \E c \in PurgeCalls : c.op = "decommit" /\ LiveBlocks(c.arena_index) # {}
  /\ th[Purger].pc \in {"purge_field", "purge_try_claim"}

\* The bit positions of the bitmaps of an arena.
Bits(arena) == 0 .. (arena.field_count * MI_BITMAP_FIELD_BITS - 1)

\* C3: when no operation is in progress, the in-use bit of a block is set if
\* and only if the block belongs to a live allocation or lies beyond
\* block_count.
C3_InuseAuthoritative ==
  Quiescent =>
    \A i \in Slots : ~mi_arenas[i].null =>
      \A b \in Bits(mi_arenas[i]) :
        (b \in mi_arenas[i].blocks_inuse)
          <=> (b \in LiveBlocks(i) \/ b >= mi_arenas[i].block_count)

\* C4: when no operation is in progress, no block has both its in-use bit and
\* its purge bit set.
C4_InuseNotPurge ==
  Quiescent =>
    \A i \in Slots : ~mi_arenas[i].null =>
      mi_arenas[i].blocks_inuse \cap mi_arenas[i].blocks_purge = {}

\* C5: a run returned for a request with commit, from an arena that allows
\* decommit, has all its committed bits set and all its purge bits clear, and
\* the OS commit was called exactly if a committed bit of the run was clear
\* when the run was claimed.
C5_CommittedOnReturn ==
  (/\ ret.op = "alloc" /\ ret.arena_index >= 0 /\ ret.req_commit
   /\ mi_arenas[ret.arena_index].allow_decommit)
  => LET arena == mi_arenas[ret.arena_index]
         run == BitRange(ret.bitmap_index, ret.blocks)
     IN /\ run \subseteq arena.blocks_committed
        /\ run \cap arena.blocks_purge = {}
        /\ ret.commit
        /\ ret.os_commit <=> ~ret.was_committed
        /\ ret.os_commit
             <=> (\E k \in DOMAIN os_calls :
                    os_calls[k].op = "commit" /\ os_calls[k].blocks = run)

\* A committed run that was freed and scheduled for a purge is returned again
\* without an OS commit while the other thread is in the middle of an operation.
C5_Witness ==
  /\ ret.op = "alloc" /\ ret.arena_index >= 0 /\ ret.req_commit
  /\ mi_arenas[ret.arena_index].allow_decommit
  /\ ~ret.os_commit
  /\ \E t \in Threads : th[t].pc # "idle"

\* An allocation that an arena served has just returned.
ServedByArena == ret.op = "alloc" /\ ret.p # 0 /\ ret.arena_index >= 0

\* C6: an allocation whose req_arena_id is none never returns memory of an
\* arena registered as exclusive.
C6_NoneNeverExclusive ==
  (ServedByArena /\ ret.req_arena_id = _mi_arena_id_none)
    => ~mi_arenas[ret.arena_index].exclusive

\* C7: an allocation that names an arena id is served by that arena only: it
\* makes no eager reservation and no OS allocation, a run it returns is of the
\* arena with that id, and when it returns null the error is ENOMEM and the
\* call has changed no bitmap.
C7_NamedArenaOnly ==
  (ret.op = "alloc" /\ ret.req_arena_id # _mi_arena_id_none)
    => /\ ~ret.reserved
       /\ \A k \in DOMAIN os_calls : os_calls[k].op # "alloc"
       /\ ret.p # 0 =>
            /\ ret.arena_index >= 0
            /\ mi_arenas[ret.arena_index].id = ret.req_arena_id
            /\ ret.arena_index = mi_arena_id_index(ret.req_arena_id)
       /\ ret.p = 0 => (ret.errno = ENOMEM /\ ~ret.touched)

\* The arena that a request names is registered and full, and the request
\* returns null with ENOMEM.
C7_Witness ==
  /\ ret.op = "alloc" /\ ret.p = 0 /\ ret.errno = ENOMEM
  /\ ret.req_arena_id \in 1 .. MI_MAX_ARENAS
  /\ LET arena == mi_arenas[mi_arena_id_index(ret.req_arena_id)]
     IN /\ ~arena.null
        /\ arena.id = ret.req_arena_id
        /\ BitRange(0, arena.block_count) \subseteq arena.blocks_inuse
        /\ LiveBlocks(mi_arena_id_index(ret.req_arena_id)) # {}

\* C8: the memid of an allocation is 0 exactly if the memory came from the OS,
\* and the memid of a run of an arena decodes to the registry index of that
\* arena, its exclusive flag and the first block index of the run.
C8_MemidRoundTrip ==
  (ret.op = "alloc" /\ ret.p # 0)
    => /\ (ret.memid = MI_MEMID_OS) <=> (ret.arena_index < 0)
       /\ ret.arena_index >= 0 =>
            mi_arena_memid_indices(ret.memid)
              = [bitmap_index |-> ret.bitmap_index,
                 arena_index |-> ret.arena_index,
                 exclusive |-> mi_arenas[ret.arena_index].exclusive]

\* The positions of a thread inside _mi_arena_free.
FreePcs == {"free_purge", "free_schedule", "free_claim_purge", "free_unclaim"}

\* The memid names no arena of the registry, or a block index that is not one
\* of the arena's blocks.
InvalidFree(memid) ==
  /\ memid # MI_MEMID_OS
  /\ LET d == mi_arena_memid_indices(memid)
     IN \/ d.arena_index \notin Slots
        \/ mi_arenas[d.arena_index].null
        \/ d.bitmap_index >= mi_arenas[d.arena_index].block_count

\* C9: a free whose memid names no arena, or a block index at or beyond
\* block_count, reports EINVAL and changes no bitmap and no purge_expire.
C9_InvalidFreeNoOp ==
  [][ /\ (ret'.op = "free" /\ InvalidFree(ret'.memid)) => ret'.errno = EINVAL
      /\ \A t \in Threads :
           (th[t].pc \in FreePcs /\ InvalidFree(th[t].memid) /\ th'[t] # th[t])
             => mi_arenas' = mi_arenas ]_vars

\* C10: the last step of a free reports EAGAIN exactly if an in-use bit of the
\* run was clear before it and no error if all were set, returns to the caller
\* either way, and leaves every in-use bit of the run clear.
C10_DoubleFree ==
  [][ \A t \in Threads :
        (th[t].pc = "free_unclaim" /\ th'[t] # th[t])
          => LET run == BitRange(th[t].bitmap_index, th[t].blocks)
                 ai == th[t].arena_index
             IN /\ th'[t].pc = "idle"
                /\ ret'.op = "free"
                /\ (run \subseteq mi_arenas[ai].blocks_inuse) => ret'.errno = 0
                /\ ~(run \subseteq mi_arenas[ai].blocks_inuse) => ret'.errno = EAGAIN
                /\ run \cap mi_arenas'[ai].blocks_inuse = {} ]_vars

\* A free of two blocks, one of them free already, has reported EAGAIN.
C10_Witness ==
  /\ ret.op = "free" /\ ret.errno = EAGAIN /\ ret.blocks = 2
  /\ \E a \in live : a.blocks = 1 /\ a.bitmap_index \in BitRange(ret.bitmap_index, 2)

\* The bit positions of the last field of an arena that are no blocks of it.
TrailingBits(arena) == { b \in Bits(arena) : b >= arena.block_count }

\* C11: the in-use bits at positions at or beyond block_count stay set in every
\* reachable state, and no run that was returned, or is claimed and about to
\* be returned, contains a block index at or beyond block_count.
C11_TrailingBitsSet ==
  /\ \A i \in Slots : ~mi_arenas[i].null =>
       TrailingBits(mi_arenas[i]) \subseteq mi_arenas[i].blocks_inuse
  /\ \A a \in live :
       a.bitmap_index + a.blocks <= mi_arenas[a.arena_index].block_count
  /\ \A t \in Threads :
       ClaimedBlocks(t) \cap TrailingBits(mi_arenas[th[t].arena_index]) = {}

\* A request has failed although block 0 is free: the last block is live, so
\* the only free run of two bits would reach into the trailing bits.
C11_Witness ==
  /\ ret.op = "alloc" /\ ret.p = 0 /\ ret.errno = ENOMEM
  /\ mi_arenas[0].blocks_inuse
       = (BitRange(0, MI_BITMAP_FIELD_BITS) \ {0})
  /\ \E a \in live : a.bitmap_index = ArenaBlocks - 1 /\ a.blocks = 1
  /\ mi_arenas[0].blocks_purge = {}

\* The positions of a thread inside the guarded scan of mi_arenas_try_purge.
ScanPcs ==
  {"purge_arena", "purge_cas", "purge_field", "purge_try_claim", "purge_reread",
   "purge_range"}

\* C12: at most one thread is inside the purge scan, the guard is held exactly
\* while a thread is inside, and a caller that finds the guard held returns in
\* that step with no OS call and no change to any arena.
C12_SinglePurger ==
  /\ [](/\ Cardinality({ t \in Threads : th[t].pc \in ScanPcs }) <= 1
        /\ purge_guard <=> (\E t \in Threads : th[t].pc \in ScanPcs))
  /\ [][ \A t \in Threads :
           (th[t].pc = "purge_guard" /\ th'[t] # th[t] /\ purge_guard)
             => /\ th'[t].pc = "idle"
                /\ ret'.op = "purge"
                /\ os_calls' = <<>>
                /\ mi_arenas' = mi_arenas
                /\ purge_guard' ]_vars

\* A caller has returned at the guard while the other thread is about to purge
\* a run, and the guard is still held.
C12_Witness ==
  /\ ret.op = "purge" /\ purge_guard
  /\ \E t \in Threads : th[t].pc = "purge_range" /\ ret.t # t

\* The positions of a thread inside mi_arena_add.
AddPcs == {"add_increment", "add_decrement", "add_store", "add_set_id"}

\* The slots of the registry that hold a descriptor.
Installed == { i \in Slots : ~mi_arenas[i].null }

\* C13: a descriptor is installed in an empty slot below MI_MAX_ARENAS and gets
\* the id slot + 1, an installed descriptor is never replaced or removed, an
\* add that obtained an index at or beyond MI_MAX_ARENAS fails and installs
\* nothing, and when no add is in progress mi_arena_count is the number of
\* installed descriptors, which fill the slots below it.
C13_DistinctSlots ==
  /\ [](/\ \A i \in Installed :
             \/ mi_arenas[i].id = i + 1
             \/ \E t \in Threads : th[t].pc = "add_set_id" /\ th[t].i = i
        /\ (ret.op = "add" /\ ret.ok)
             => /\ ret.arena_index \in Installed
                /\ ret.arena_id = ret.arena_index + 1
        /\ (\A t \in Threads : th[t].pc \notin AddPcs)
             => /\ mi_arena_count = Cardinality(Installed)
                /\ mi_arena_count <= MI_MAX_ARENAS
                /\ Installed = 0 .. (mi_arena_count - 1))
  /\ [][ /\ \A i \in Installed :
             /\ ~mi_arenas'[i].null
             /\ mi_arenas'[i].start = mi_arenas[i].start
         /\ \A t \in Threads :
             (th[t].pc = "add_decrement" /\ th'[t] # th[t])
               => /\ mi_arenas' = mi_arenas
                  /\ th[t].i >= MI_MAX_ARENAS
                  /\ ret'.op = "add" /\ ~ret'.ok ]_vars

\* An add has failed on a full registry whose last slot the other thread took
\* during this behaviour.
C13_Witness ==
  /\ ret.op = "add" /\ ~ret.ok /\ ret.arena_id = -1
  /\ mi_arena_count = MI_MAX_ARENAS
  /\ Installed = Slots
  /\ calls >= 2

\* C14: with reset_decommits set, when a purge pass that is not forced has
\* claimed a run of blocks whose purge bits are all set and purges it, the OS
\* is asked to decommit exactly that run, at any position and of any length,
\* and afterwards the committed and the purge bits of the run are clear.
C14_PurgeDecommitsRun ==
  [][ \A t \in Threads :
       LET run == BitRange(mi_bitmap_index_create(th[t].fi, th[t].bitidx),
                           th[t].bitlen)
       IN (/\ th[t].pc = "purge_range" /\ th'[t] # th[t]
           /\ opt.reset_decommits /\ ~th[t].force
           /\ run \subseteq mi_arenas[th[t].i].blocks_purge)
          => /\ \E k \in DOMAIN os_calls' :
                  /\ os_calls'[k].op = "decommit"
                  /\ os_calls'[k].arena_index = th[t].i
                  /\ os_calls'[k].blocks = run
             /\ run \cap mi_arenas'[th[t].i].blocks_committed = {}
             /\ run \cap mi_arenas'[th[t].i].blocks_purge = {} ]_vars

\* C15: when the OS commit did not report fresh zeroing, a run is returned as
\* zero exactly if the dirty bit of every block of the run was clear before the
\* call, so a run with a block used before is never returned as zero; after
\* the call all dirty bits of the run are set.
C15_ZeroIffUnwritten ==
  [][ \A t \in Threads :
       (th[t].pc = "alloc_commit" /\ th'[t] # th[t] /\ ~ret'.commit_zero)
       => LET run == BitRange(th[t].bitmap_index, th[t].blocks)
          IN /\ ret'.is_zero
                  <=> (run \cap mi_arenas[th[t].arena_index].blocks_dirty = {})
             /\ run \subseteq mi_arenas'[th[t].arena_index].blocks_dirty ]_vars

\* The blocks of the run that thread t is freeing.
FreeRun(t) == BitRange(th[t].bitmap_index, th[t].blocks)

\* C16: in a free with a purge delay, the store that makes purge_expire
\* non-zero and the setting of the purge bits of the run both happen while the
\* in-use bits of the run are still set, and the in-use bits are cleared only
\* after that: when the purge bits have just been set the in-use bits are set,
\* and when the in-use bits are cleared the purge bits were set before.
C16_PurgeBeforeRelease ==
  [][ \A t \in Threads :
       LET ai == th[t].arena_index
       IN /\ (th[t].pc = "free_schedule" /\ th'[t] # th[t])
               => /\ th'[t].pc = "free_claim_purge"
                  /\ th[t].expire = 0 => mi_arenas'[ai].purge_expire # 0
                  /\ FreeRun(t) \subseteq mi_arenas'[ai].blocks_inuse
          /\ (th[t].pc = "free_claim_purge" /\ th'[t] # th[t])
               => /\ th'[t].pc = "free_unclaim"
                  /\ FreeRun(t) \subseteq mi_arenas'[ai].blocks_purge
                  /\ FreeRun(t) \subseteq mi_arenas[ai].blocks_inuse
                  /\ FreeRun(t) \subseteq mi_arenas'[ai].blocks_inuse
          /\ (th[t].pc = "free_unclaim" /\ th'[t] # th[t])
               => /\ FreeRun(t) \subseteq mi_arenas[ai].blocks_purge
                  /\ FreeRun(t) \subseteq mi_arenas[ai].blocks_inuse
                  /\ FreeRun(t) \cap mi_arenas'[ai].blocks_inuse = {} ]_vars

\* A free has set the purge bits of its run and has not yet released it, while
\* the purge pass of the other thread is looking at the purge bits.
C16_Witness ==
  \E t, u \in Threads :
    /\ th[t].pc = "free_unclaim"
    /\ FreeRun(t) \subseteq mi_arenas[th[t].arena_index].blocks_purge
    /\ FreeRun(t) \subseteq mi_arenas[th[t].arena_index].blocks_inuse
    /\ th[u].pc = "purge_try_claim"

\* C17: with a purge delay, a free of a committed run leaves the committed
\* bits as they were, sets purge_expire to now + delay when it was 0, and ends
\* with the in-use bits of the run clear, its purge bits set and purge_expire
\* non-zero; when the run is allocated again with commit and no purge pass has
\* run, the allocation returns the address of the run with its purge bits
\* clear, and no step calls the OS to decommit, reset or commit.
C17_FreeThenReuse ==
  [][ /\ \A t \in Threads :
         LET ai == th[t].arena_index
             committed == mi_arenas[ai].blocks_committed
         IN /\ (th[t].pc = "free_schedule" /\ th'[t] # th[t])
                 => /\ mi_arenas[ai].purge_expire = 0
                         => mi_arenas'[ai].purge_expire
                              = clock + opt.arena_purge_delay
                    /\ mi_arenas'[ai].purge_expire # 0
                    /\ mi_arenas'[ai].blocks_committed = committed
            /\ (th[t].pc = "free_claim_purge" /\ th'[t] # th[t])
                 => mi_arenas'[ai].blocks_committed = committed
            /\ (th[t].pc = "free_unclaim" /\ th'[t] # th[t])
                 => /\ FreeRun(t) \cap mi_arenas'[ai].blocks_inuse = {}
                    /\ FreeRun(t) \subseteq mi_arenas'[ai].blocks_purge
                    /\ FreeRun(t) \subseteq committed
                    /\ mi_arenas'[ai].blocks_committed = committed
                    /\ mi_arenas'[ai].purge_expire # 0
            /\ (/\ th[t].pc = "alloc_commit" /\ th'[t] # th[t]
                /\ FreeRun(t) \subseteq committed)
                 => /\ ret'.p = mi_arenas[ai].start
                                  + mi_bitmap_index_bit(th[t].bitmap_index)
                                    * MI_ARENA_BLOCK_SIZE
                    /\ ret'.commit
                    /\ FreeRun(t) \cap mi_arenas'[ai].blocks_purge = {}
                    /\ FreeRun(t) \subseteq mi_arenas'[ai].blocks_committed
                    /\ os_calls' = <<>>
      /\ \A k \in DOMAIN os_calls' :
           os_calls'[k].op \notin {"decommit", "reset"} ]_vars

\* A run that was freed with a delayed purge has been allocated again: it is
\* returned at its address without a call of the OS, while the expiration set
\* by the free is still pending.
C17_Witness ==
  /\ ret.op = "alloc" /\ ret.arena_index = 0 /\ ~ret.os_commit
  /\ ret.blocks = ArenaBlocks
  /\ ret.p = mi_arenas[0].start
  /\ mi_arenas[0].purge_expire # 0
  /\ mi_arenas[0].blocks_purge \cap BitRange(0, ArenaBlocks) = {}
  /\ BitRange(0, ArenaBlocks) \subseteq mi_arenas[0].blocks_committed

\* C18: when no operation is in progress, an arena with a block whose in-use
\* bit is clear and whose purge bit is set has a non-zero purge_expire.
C18_PendingPurgeArmed ==
  Quiescent =>
    \A i \in Slots :
      (/\ ~mi_arenas[i].null
       /\ (mi_arenas[i].blocks_purge \ mi_arenas[i].blocks_inuse) # {})
      => mi_arenas[i].purge_expire # 0

\* C19: a purge changes the committed and the purge bitmap only when the OS
\* reports success: after an OS decommit that failed, and after a purge done
\* as a reset, the committed bits of the run are as before and its purge bits
\* are still set; the operation goes on.
C19_PurgeOnlyOnSuccess ==
  [][ \A k \in DOMAIN os_calls' :
       LET c == os_calls'[k]
       IN (/\ c.op \in {"decommit", "reset"}
           /\ (~c.ok \/ c.op = "reset"))
          => /\ c.blocks \cap mi_arenas[c.arena_index].blocks_committed
                  \subseteq mi_arenas'[c.arena_index].blocks_committed
             /\ c.blocks \cap mi_arenas[c.arena_index].blocks_purge
                  \subseteq mi_arenas'[c.arena_index].blocks_purge
             /\ ub' = {} ]_vars

\* Block b of the arena of slot i is scheduled for a purge.
PurgePending(i, b) == ~mi_arenas[i].null /\ b \in mi_arenas[i].blocks_purge

\* C20: when purge passes are run again and again and the clock advances,
\* every block whose purge bit a free has set has the bit cleared later, by a
\* purge pass or by an allocation that takes the block again.
C20_EventuallyPurged ==
  \A i \in Slots : \A b \in 0 .. (ArenaBlocks - 1) :
    PurgePending(i, b) ~> ~PurgePending(i, b)

\* The positions from which a thread makes the claim of mi_arena_alloc, and
\* those it reaches with a run claimed.
ClaimPcs == {"alloc_walk", "alloc_specific", "alloc_in"}
ClaimedPcs == {"alloc_unclaim_purge", "alloc_commit"}

\* C21: after a successful claim in an arena its search_idx is the start of the
\* run that was claimed, and a claim that fails leaves search_idx as it was.
C21_SearchIdxFollowsClaim ==
  [][ \A t \in Threads :
       (th[t].pc \in ClaimPcs /\ th'[t] # th[t])
       => IF th'[t].pc \in ClaimedPcs
          THEN mi_arenas'[th'[t].arena_index].search_idx = th'[t].bitmap_index
          ELSE \A i \in Slots :
                 (~mi_arenas[i].null /\ ~mi_arenas'[i].null)
                 => mi_arenas'[i].search_idx = mi_arenas[i].search_idx ]_vars

\* The arena has a free run of n blocks.
HasFreeRun(arena, n) ==
  _mi_bitmap_try_find_from_claim_across(arena.blocks_inuse, arena.field_count,
                                        0, n).ok

\* The arena is not pinned to a NUMA node other than numa_node.
NumaLocal(arena, numa_node) ==
  arena.numa_node < 0 \/ arena.numa_node = numa_node

\* C22: a request that names no arena claims its run in an arena of large OS
\* pages only if it allows them; it claims in an arena pinned to another NUMA
\* node only in the second pass and only when no unpinned or local arena that
\* it may use has a free run of the needed length; within a pass it claims in
\* the first arena in registry order that is tried in that pass and has a free
\* run; and every arena it may use is tried in exactly one of the two passes.
C22_NumaLocalFirst ==
  [][ \A t \in Threads :
       (th[t].pc = "alloc_walk" /\ th'[t] # th[t])
       => LET usable(j) ==
                /\ ~mi_arenas[j].null
                /\ th[t].large \/ ~mi_arenas[j].is_large
                /\ mi_arena_id_is_suitable(mi_arenas[j].id, mi_arenas[j].exclusive,
                                           th[t].req_arena_id)
              local(j) == NumaLocal(mi_arenas[j], th[t].numa_node)
              full(j) == ~HasFreeRun(mi_arenas[j], th[t].blocks)
              i == th'[t].arena_index
          IN /\ \A j \in Slots : usable(j) =>
                  (WalkEligible(mi_arenas[j], 1, th[t].numa_node, th[t].large)
                     # WalkEligible(mi_arenas[j], 2, th[t].numa_node, th[t].large))
             /\ th'[t].pc \in ClaimedPcs
                  => /\ i = th[t].i
                     /\ usable(i)
                     /\ local(i) <=> th[t].pass = 1
                     /\ \A j \in Slots :
                          (usable(j) /\ local(j) /\ (j < i \/ ~local(i)))
                            => full(j)
                     /\ \A j \in Slots :
                          (usable(j) /\ ~local(j) /\ ~local(i) /\ j < i)
                            => full(j) ]_vars

\* A caller has claimed a run in an arena pinned to another node, in the second
\* pass, while an arena local to it is full.
C22_Witness ==
  \E t \in Threads :
    /\ th[t].pc \in ClaimedPcs
    /\ th[t].pass = 2
    /\ ~NumaLocal(mi_arenas[th[t].arena_index], th[t].numa_node)
    /\ \E j \in Slots :
         /\ ~mi_arenas[j].null
         /\ NumaLocal(mi_arenas[j], th[t].numa_node)
         /\ ~mi_arenas[j].is_large
         /\ ~HasFreeRun(mi_arenas[j], th[t].blocks)

\* C23: no reader of the registry dereferences a slot whose descriptor pointer
\* is still null: a null slot below the arena count is taken as the end of the
\* registry or as absent, and the reader goes on.
C23_NullSlotTolerated ==
  /\ "null dereference" \notin ub
  /\ \A t \in Threads : th[t].pc # "crashed"

\* Whether an arena of the registry could serve the request of thread t.
CouldServe(t) ==
  \E i \in Slots :
    /\ ~mi_arenas[i].null
    /\ mi_arena_id_is_suitable(mi_arenas[i].id, mi_arenas[i].exclusive,
                               th[t].req_arena_id)
    /\ (th[t].large \/ ~mi_arenas[i].is_large)
    /\ HasFreeRun(mi_arenas[i], th[t].blocks)

\* The step of thread t that decides on the eager reservation.
ReserveStep(t) == th[t].pc = "alloc_reserve" /\ th'[t] # th[t]

\* C24 as stated: an allocation eagerly reserves a new arena only when no
\* existing arena could serve the request, it names no arena, arena_count is
\* below three quarters of MI_MAX_ARENAS and the arena_reserve option is at
\* least the requested size; when arena_count is at three quarters of
\* MI_MAX_ARENAS or arena_reserve is smaller than the requested size, no arena
\* is registered and the request goes on to the OS.
C24_EagerReserveOnlyWhen ==
  [][ \A t \in Threads :
       ReserveStep(t)
       => /\ th'[t].reserved
             => /\ ~CouldServe(t)
                /\ th[t].req_arena_id = _mi_arena_id_none
                /\ mi_arena_count < (3 * MI_MAX_ARENAS) \div 4
                /\ opt.arena_reserve >= th[t].size
          /\ (\/ mi_arena_count >= (3 * MI_MAX_ARENAS) \div 4
              \/ opt.arena_reserve < th[t].size)
             => /\ th'[t].pc = "alloc_os"
                /\ ~th'[t].reserved
                /\ mi_arenas' = mi_arenas
                /\ mi_arena_count' = mi_arena_count ]_vars

\* C24, amended: the size that is compared with the request is arena_reserve
\* rounded up to whole arena blocks; a reservation happens only when no
\* existing arena could serve the request, it names no arena, arena_count is
\* below three quarters of MI_MAX_ARENAS and the rounded arena_reserve is at
\* least the requested size; when arena_count is at three quarters of
\* MI_MAX_ARENAS or the rounded arena_reserve is smaller than the requested
\* size, no arena is registered and the request goes on to the OS.
C24_EagerReserveRounded ==
  [][ \A t \in Threads :
       ReserveStep(t)
       => /\ th'[t].reserved
             => /\ ~CouldServe(t)
                /\ th[t].req_arena_id = _mi_arena_id_none
                /\ mi_arena_count < (3 * MI_MAX_ARENAS) \div 4
                /\ _mi_align_up(opt.arena_reserve, MI_ARENA_BLOCK_SIZE) >= th[t].size
          /\ (\/ mi_arena_count >= (3 * MI_MAX_ARENAS) \div 4
              \/ _mi_align_up(opt.arena_reserve, MI_ARENA_BLOCK_SIZE) < th[t].size)
             => /\ th'[t].pc = "alloc_os"
                /\ ~th'[t].reserved
                /\ mi_arenas' = mi_arenas
                /\ mi_arena_count' = mi_arena_count ]_vars

\* An allocation was served by an arena it reserved after the arenas of the
\* registry refused it.
C24_Witness ==
  /\ ret.op = "alloc"
  /\ ret.reserved
  /\ ret.arena_index >= 1
  /\ ret.req_arena_id = _mi_arena_id_none

\* C25: no reader of the registry indexes the slot array at a position of
\* MI_MAX_ARENAS or beyond, in any interleaving with concurrent adds, a failing
\* add that has raised mi_arena_count above MI_MAX_ARENAS included: the
\* allocation walk and the purge walk that loaded that count access only the
\* slots 0 .. MI_MAX_ARENAS - 1.
C25_SlotsWithinArray == "slot out of bounds" \notin ub

\* C26: an allocation served by an arena that was registered with is_zero false
\* does not report zeroed memory unless an OS commit during that allocation
\* reported freshly zeroed memory: is_zero_init counts when the first
\* allocation of a block reports its zero state.
C26_ZeroNeedsZeroInit ==
  (/\ ret.op = "alloc"
   /\ ret.arena_index \in Slots
   /\ ~mi_arenas[ret.arena_index].null
   /\ ~mi_arenas[ret.arena_index].is_zero_init
   /\ ret.is_zero)
  => ret.commit_zero

====
